---- MODULE Spec2Model ----
(***************************************************************************)
(* A model of the rust_chain node: the canonical Chain with its block      *)
(* store and the per-peer NewBlock workers of the network server, the      *)
(* fork choice with its reorganisation tracker, and the mempool with its   *)
(* validator.  Each subsystem has its own specification over the shared    *)
(* variable list; the variables of the other subsystems stay unchanged.    *)
(***************************************************************************)
EXTENDS Integers, Sequences, FiniteSets, TLC

\* ------------------------------------------------------------------------
\* Bounds of the model
\* ------------------------------------------------------------------------
MaxChain == 3
NumWorkers == 2
NumHashes == 1
MaxBatch == 2
MaxFaults == 1
MaxAdds == 5
MaxForkHeight == 3
MaxReorgDepth == 1
MaxSeen == 3
MaxSize == 2
MaxTime == 1
MaxAge == 0
MaxBalance == 2
MaxNonce == 2
MaxZeros == 2
MaxDifficulty == 3
MaxStamp == 5
MaxBlocks == 3
MaxTarget == 2
WordBits == 4
NumConns == 2
MaxLedger == 3
MaxCount == 2
MaxHeaders == 3
NumThreads == 2
MaxSpawned == 3

\* u64 and i64 arithmetic is carried out at WordBits bits.
WordMod == 2 ^ WordBits

\* `as i64` of a u64, and the wrapped value of an i64 result.
ToSigned(x) == IF x >= WordMod \div 2 THEN x - WordMod ELSE x

WrapSigned(x) == ((x + WordMod \div 2) % WordMod) - WordMod \div 2

\* ------------------------------------------------------------------------
\* Hashes and blocks
\* ------------------------------------------------------------------------
\* A hash string is a sequence of integers.  The two sentinel strings are
\* the one-element sequences ZERO64 ("0" repeated 64 times) and ZERO1 ("0").
ZERO64 == <<0>>
ZERO1 == <<1>>

GENESIS_TIMESTAMP == 1723804800
DEFAULT_MAX_SIZE == 1000
DEFAULT_MAX_AGE_SECONDS == 3600
EXPECTED_SIG_LENGTH == 64
MIN_SIG_LENGTH == 32
MIN_ADDRESS_LENGTH == 3
DEFAULT_DIFFICULTY == 4

\* sha256 over the header (hash field empty) and the transactions: an
\* injective encoding of the hashed fields, so a digest never equals a
\* sentinel or the digest of different content.
BlockHash(previous_hash, timestamp, nonce, height) ==
    previous_hash \o <<timestamp, nonce, height>>

BlockNew(previous_hash, nonce, timestamp, height) ==
    [previous_hash |-> previous_hash,
     timestamp     |-> timestamp,
     nonce         |-> nonce,
     hash          |-> BlockHash(previous_hash, timestamp, nonce, height),
     height        |-> height]

genesis_block == BlockNew(ZERO64, 0, GENESIS_TIMESTAMP, 0)

Range(s) == {s[i] : i \in 1..Len(s)}

Last(s) == s[Len(s)]

\* ------------------------------------------------------------------------
\* State
\* ------------------------------------------------------------------------
VARIABLES
    blocks,        \* Chain.blocks of the shared canonical chain
    persistent,    \* Chain.persistent
    store,         \* the keys of the BlockStore database
    chainLock,     \* holder of the Mutex<Chain>: 0 when free, else a worker
    pc,            \* position of each per-peer worker in the NewBlock handler
    msg,           \* the block of the NewBlock message a worker is handling
    syncLeft,      \* blocks of the sync batch still to be applied
    faults,        \* number of store writes that have failed so far
    lastAdd,       \* outcome of the last direct Chain::add_block call
    chains,        \* ForkChoice.chains: tip hash -> the blocks of that chain
    best_chain_hash,  \* ForkChoice.best_chain_hash, NoHash for None
    tracking,      \* TRUE when the fork choice sits inside ForkChoiceWithReorg
    max_reorg_depth,  \* ForkChoiceWithReorg.max_reorg_depth
    reorg_history, \* ForkChoiceWithReorg.reorg_history
    added,         \* the blocks the fork choice has taken in, in order
    emitted,       \* the ReorgEvents add_block has returned, in call order
    forkLast,      \* the last ForkChoice::add_block call: what it met and returned
    transactions,  \* Mempool.transactions, highest priority first
    seen_transactions,  \* TransactionValidator.seen_transactions
    max_size,      \* Mempool.max_size
    max_age_seconds,  \* Mempool.max_age_seconds
    file,          \* the mempool file: whether it exists, the transactions in it
    lastOp,        \* the last mempool call: its inputs and what it returned
    difficulty,    \* ProofOfWork.difficulty
    powLast,       \* the last ProofOfWork call: its inputs and what it returned
    balances,      \* UTXOState.balances of a state object of its own
    stateLast,     \* the last UTXOState call: its inputs and what it did
    session,       \* each inbound connection: whether its loop still runs
    peers,         \* NetworkServer.peers: node id -> PeerInfo
    netLast,       \* the last frame handle_connection read and what it did
    ledger,        \* Chain.blocks with each block's transactions
    ledgerOwner,   \* who holds that chain: the CLI, or the network server
    running,       \* NetworkServer.running
    listener,      \* the threads in start() and stop(): where they are
    peersLock,     \* holder of the Mutex of the peer table: 0 when free
    threads        \* the threads that take the two mutexes: call and position

chainVars == <<blocks, persistent, store, chainLock, pc, msg, syncLeft, faults, lastAdd>>

forkVars == <<chains, best_chain_hash, tracking, max_reorg_depth,
              reorg_history, added, emitted, forkLast>>

poolVars == <<transactions, seen_transactions, max_size, max_age_seconds,
              file, lastOp>>

powVars == <<difficulty, powLast>>

stateVars == <<balances, stateLast>>

netVars == <<session, peers, netLast>>

ledgerVars == <<ledger, ledgerOwner>>

serverVars == <<running, listener, peersLock, threads>>

moreVars == <<netVars, ledgerVars, serverVars>>

extVars == <<powVars, stateVars, moreVars>>

coreVars == <<chainVars, forkVars, poolVars>>

vars == <<coreVars, extVars>>

Workers == 1..NumWorkers

\* The inbound connections, one thread each.
Conns == 1..NumConns

\* MiningPool::new(4) of the node, no ProofOfWork call made yet.
NoPow == [op |-> "none"]

PowIdle ==
    /\ difficulty = DEFAULT_DIFFICULTY
    /\ powLast = NoPow

\* UTXOState::new(), no call made yet.
StateIdle ==
    /\ balances = [a \in {} |-> 0]
    /\ stateLast = [op |-> "none"]

\* No connection accepted yet.
NoNet == [op |-> "none"]

\* A connection nobody holds: closed, no Handshake seen, the last read did
\* not time out, no node id registered.
NoSession == [open |-> FALSE, handshaken |-> FALSE, idle |-> FALSE,
              registered |-> {}]

NetIdle ==
    /\ session = [c \in Conns |-> NoSession]
    /\ peers = [n \in {} |-> <<>>]
    /\ netLast = NoNet

\* No chain with transactions built yet.
LedgerIdle ==
    /\ ledger = <<>>
    /\ ledgerOwner = "none"

\* NetworkServer::new: not running, start() and stop() not called, both
\* mutexes free and no thread inside a call.
NoListener == [start |-> "new", stream |-> FALSE, stopped |-> FALSE,
               spawned |-> 0, passed |-> FALSE, late |-> FALSE]

Threads == 1..NumThreads

NoCall == [op |-> "none", at |-> 0]

ServerIdle ==
    /\ running = FALSE
    /\ listener = NoListener
    /\ peersLock = 0
    /\ threads = [t \in Threads |-> NoCall]

MoreIdle == NetIdle /\ LedgerIdle /\ ServerIdle

\* The subsystems the chain, fork choice and mempool steps leave alone.
ExtIdle == PowIdle /\ StateIdle /\ MoreIdle

\* ------------------------------------------------------------------------
\* The chain
\* ------------------------------------------------------------------------
\* Blocks a peer can put on the wire: the header fields are whatever the
\* peer wrote, the hash field included.
PeerHashes == {genesis_block.hash} \cup {<<2, h>> : h \in 1..NumHashes}

PeerBlocks ==
    [previous_hash : PeerHashes,
     timestamp     : {1},
     nonce         : {0},
     hash          : PeerHashes,
     height        : 1..(MaxChain - 1)]

WireBlocks == PeerBlocks \cup {genesis_block}

\* validate_block without its height comparison.
validate_block_prev_only(bs, block) ==
    LET last_hash == IF Len(bs) > 0 THEN Last(bs).hash ELSE <<>>
    IN  block.previous_hash = last_hash

\* validate_block without its previous_hash comparison.
validate_block_height_only(bs, block) ==
    block.height = Len(bs)

validate_block(bs, block) ==
    LET last_hash == IF Len(bs) > 0 THEN Last(bs).hash ELSE <<>>
        expected_height == Len(bs)
    IN  block.previous_hash = last_hash /\ block.height = expected_height

EmptyStore == [block |-> {}, height |-> {}, latest |-> {}]

\* BlockStore::store_block writes three keys in turn; `done` is the number
\* of writes that succeeded before the database returned an error (3 and
\* above: all three).
StorePut(st, block, done) ==
    [block  |-> IF done >= 1
                THEN {kv \in st.block : kv[1] # block.hash}
                         \cup {<<block.hash, block>>}
                ELSE st.block,
     height |-> IF done >= 2
                THEN {kv \in st.height : kv[1] # block.height}
                         \cup {<<block.height, block.hash>>}
                ELSE st.height,
     latest |-> IF done >= 3 THEN {block.height} ELSE st.latest]

\* Chain::persist_block: store_block, then the writes that index the
\* transactions of the block in the transaction database; Ok exactly when
\* every write succeeded (done = 4; done = 3: the block is stored and an
\* index write failed).
persist_block(st, isPersistent, block, done) ==
    IF ~isPersistent
    THEN [store |-> st, ok |-> TRUE]
    ELSE [store |-> StorePut(st, block, done), ok |-> done = 4]

\* Chain::load_from_storage on a persistent chain: with a latest height in
\* the store the blocks of heights 0..=latest are read through the height
\* keys, a missing one is an error; without, the genesis block is created
\* and persisted.
load_from_storage(st) ==
    IF st.latest = {}
    THEN [ok |-> TRUE, blocks |-> <<genesis_block>>,
          store |-> StorePut(st, genesis_block, 3)]
    ELSE LET latest_height == CHOOSE h \in st.latest : TRUE
             hashes(h) == {kv[2] : kv \in {x \in st.height : x[1] = h}}
             found(h) == {kv[2] : kv \in {x \in st.block : x[1] \in hashes(h)}}
         IN  IF \E h \in 0..latest_height : found(h) = {}
             THEN [ok |-> FALSE, blocks |-> <<>>, store |-> st]
             ELSE [ok |-> TRUE,
                   blocks |-> [i \in 1..(latest_height + 1) |->
                                  CHOOSE b \in found(i - 1) : TRUE],
                   store |-> st]

\* Chain::add_block on the pair (blocks, store).
add_block(bs, st, isPersistent, block, done) ==
    IF validate_block(bs, block)
    THEN LET p == persist_block(st, isPersistent, block, done)
         IN  IF p.ok
             THEN [blocks |-> Append(bs, block), store |-> p.store, ret |-> TRUE]
             ELSE [blocks |-> bs, store |-> p.store, ret |-> FALSE]
    ELSE [blocks |-> bs, store |-> st, ret |-> FALSE]

NoAdd == [replay |-> FALSE, ret |-> FALSE, same |-> TRUE, failed |-> FALSE]

ChainInit ==
    /\ blocks = <<genesis_block>>
    /\ persistent \in BOOLEAN
    /\ store = IF persistent THEN StorePut(EmptyStore, genesis_block, 3)
               ELSE EmptyStore
    /\ chainLock = 0
    /\ pc = [w \in Workers |-> "idle"]
    /\ msg = [w \in Workers |-> genesis_block]
    /\ syncLeft = 0
    /\ faults = 0
    /\ lastAdd = NoAdd

\* ------------------------------------------------------------------------
\* Fork choice
\* ------------------------------------------------------------------------
NoHash == <<>>

Timestamps == {1, 2}
Nonces == {0, 1}

\* HashMap::insert and HashMap::remove on a map held as a function.
MapInsert(m, k, v) == [h \in DOMAIN m \cup {k} |-> IF h = k THEN v ELSE m[h]]

MapRemove(m, k) == [h \in DOMAIN m \ {k} |-> m[h]]

EmptyMap == [h \in {} |-> <<>>]

\* ForkChoice::new() and ForkChoiceWithReorg::new(depth)
ForkNew == [chains |-> EmptyMap, best |-> NoHash]

\* ForkChoice::with_genesis_chain(chain)
with_genesis_chain(bs) ==
    IF Len(bs) > 0
    THEN [chains |-> MapInsert(EmptyMap, Last(bs).hash, bs), best |-> Last(bs).hash]
    ELSE ForkNew

\* ForkChoice::get_best_chain: the empty sequence stands for None.
get_best_chain(cs, best) ==
    IF best # NoHash /\ best \in DOMAIN cs THEN cs[best] ELSE <<>>

HasBestChain(cs, best) == best # NoHash /\ best \in DOMAIN cs

\* The first blocks of bs up to and including the block with hash h.
PrefixTo(bs, h) ==
    SubSeq(bs, 1, CHOOSE i \in 1..Len(bs) :
                     /\ bs[i].hash = h
                     /\ \A j \in 1..(i - 1) : bs[j].hash # h)

\* ForkChoice::find_chain_with_tip: the chains it can return; the empty set
\* stands for None.  The second branch walks the HashMap in an order the
\* program does not fix, so any chain that holds the block can be the one.
find_chain_with_tip(cs, tip_hash) ==
    IF tip_hash \in DOMAIN cs
    THEN {cs[tip_hash]}
    ELSE {PrefixTo(cs[k], tip_hash) :
             k \in {k \in DOMAIN cs : \E i \in 1..Len(cs[k]) : cs[k][i].hash = tip_hash}}

\* is_better_chain that takes a chain of equal length as better whatever
\* the timestamps.
is_better_chain_ties(cs, best, chain) ==
    IF HasBestChain(cs, best)
    THEN Len(chain) >= Len(get_best_chain(cs, best))
    ELSE TRUE

\* is_better_chain without the longest-chain comparison.
is_better_chain_newest(cs, best, chain) ==
    IF HasBestChain(cs, best)
    THEN LET current_best == get_best_chain(cs, best)
         IN  Len(chain) > 0 /\ Len(current_best) > 0
             /\ Last(chain).timestamp > Last(current_best).timestamp
    ELSE TRUE

\* ForkChoice::is_better_chain
is_better_chain(cs, best, chain) ==
    IF HasBestChain(cs, best)
    THEN LET current_best == get_best_chain(cs, best)
             new_height == Len(chain)
             current_height == Len(current_best)
         IN  IF new_height > current_height THEN TRUE
             ELSE IF new_height = current_height
                     /\ Len(chain) > 0 /\ Len(current_best) > 0
                  THEN Last(chain).timestamp > Last(current_best).timestamp
                  ELSE FALSE
    ELSE TRUE

\* ForkChoice::add_block, the branch for previous_hash == "0".
add_genesis(cs, best, block) ==
    LET chain == <<block>>
        is_new_best == is_better_chain(cs, best, chain)
    IN  [result |-> "Ok",
         is_new_best |-> is_new_best,
         chains |-> MapInsert(cs, block.hash, chain),
         best |-> IF is_new_best THEN block.hash ELSE best]

\* add_to_parent that inserts the extended chain before it validates.
add_to_parent_insert_first(cs, best, block, parent) ==
    IF ~validate_block(parent, block)
    THEN [result |-> "Invalid block", is_new_best |-> FALSE,
          chains |-> MapInsert(cs, block.hash, Append(parent, block)),
          best |-> best]
    ELSE LET chain == Append(parent, block)
             is_new_best == is_better_chain(cs, best, chain)
             inserted == MapInsert(cs, block.hash, chain)
         IN  [result |-> "Ok",
              is_new_best |-> is_new_best,
              chains |-> IF block.previous_hash # ZERO1
                         THEN MapRemove(inserted, block.previous_hash)
                         ELSE inserted,
              best |-> IF is_new_best THEN block.hash ELSE best]

\* ForkChoice::add_block once find_chain_with_tip has returned parent.
add_to_parent(cs, best, block, parent) ==
    IF ~validate_block(parent, block)
    THEN [result |-> "Invalid block", is_new_best |-> FALSE,
          chains |-> cs, best |-> best]
    ELSE LET chain == Append(parent, block)
             is_new_best == is_better_chain(cs, best, chain)
             inserted == MapInsert(cs, block.hash, chain)
         IN  [result |-> "Ok",
              is_new_best |-> is_new_best,
              chains |-> IF block.previous_hash # ZERO1
                         THEN MapRemove(inserted, block.previous_hash)
                         ELSE inserted,
              best |-> IF is_new_best THEN block.hash ELSE best]

\* ForkChoice::add_block: the outcomes it can have.
fork_add_block(cs, best, block) ==
    IF block.previous_hash = ZERO1
    THEN {add_genesis(cs, best, block)}
    ELSE LET parents == find_chain_with_tip(cs, block.previous_hash)
         IN  IF parents = {}
             THEN {[result |-> "Parent block not found", is_new_best |-> FALSE,
                    chains |-> cs, best |-> best]}
             ELSE {add_to_parent(cs, best, block, parent) : parent \in parents}

\* The tip of the best chain as ForkChoiceWithReorg::add_block reads it.
BestTip(cs, best) ==
    LET c == get_best_chain(cs, best)
    IN  IF Len(c) > 0 THEN Last(c).hash ELSE NoHash

\* ForkChoiceWithReorg::add_block after the inner add_block returned r:
\* the event it returns (<<>> for None) and the history it keeps.
reorg_step(history, depth, old_best, block, r) ==
    IF r.result = "Ok" /\ r.is_new_best /\ old_best # NoHash /\ old_best # block.hash
    THEN LET event == [old_tip |-> old_best, new_tip |-> block.hash, depth |-> 1]
             pushed == Append(history, event)
         IN  [event |-> <<event>>,
              history |-> IF Len(pushed) > depth THEN Tail(pushed) ELSE pushed]
    ELSE [event |-> <<>>, history |-> history]

\* get_chain_stats
total_chains == Cardinality(DOMAIN chains)

has_forks == total_chains > 1

\* The headers a caller can hand to add_block: built by Block::new, with a
\* parent that is a sentinel, a block already known, or unknown.
UnknownHash == <<9>>

KnownHashes ==
    UNION {{chains[k][i].hash : i \in 1..Len(chains[k])} : k \in DOMAIN chains}

ParentHashes == {ZERO1, ZERO64, UnknownHash} \cup KnownHashes

RootHeights == {0}

ForkHeights(previous_hash) ==
    IF previous_hash = ZERO1 THEN RootHeights ELSE 0..MaxForkHeight

\* No add_block call made yet.
NoFork == [result |-> "none", sentinel |-> FALSE, known |-> FALSE,
           height_ok |-> FALSE, same |-> TRUE]

ForkIdle ==
    /\ chains = EmptyMap
    /\ best_chain_hash = NoHash
    /\ tracking = FALSE
    /\ max_reorg_depth = 0
    /\ reorg_history = <<>>
    /\ added = <<>>
    /\ emitted = <<>>
    /\ forkLast = NoFork

\* ------------------------------------------------------------------------
\* Mempool and transaction validator
\* ------------------------------------------------------------------------
\* Strings are sequences of character codes; sha256 is taken as injective
\* and a digest is held as the string it was computed from.
sha256_hash(str) == str

RECURSIVE Decimal(_)
\* The decimal digits format! writes for an unsigned integer.
Decimal(n) == IF n < 10 THEN <<48 + n>> ELSE Decimal(n \div 10) \o <<48 + (n % 10)>>

HexDigit(d) == IF d < 10 THEN 48 + d ELSE 87 + d

\* hex::encode: two lowercase hexadecimal digits for each byte.
hex_encode(bytes) ==
    [i \in 1..(2 * Len(bytes)) |->
        IF i % 2 = 1 THEN HexDigit(bytes[(i + 1) \div 2] \div 16)
                     ELSE HexDigit(bytes[i \div 2] % 16)]

\* calculate_transaction_hash: sha256 of "from:to:amount:hex(signature)".
calculate_transaction_hash(tx) ==
    sha256_hash(tx.from \o <<58>> \o tx.to \o <<58>> \o Decimal(tx.amount)
                \o <<58>> \o hex_encode(tx.signature))

Transaction(from, to, amount, signature) ==
    [from |-> from, to |-> to, amount |-> amount, signature |-> signature]

\* The transactions a caller can pass.
ALI == <<97, 108, 105>>

BOB == <<98, 111, 98>>

SHORT == <<97, 98>>

NoSignature == <<>>

Signature(n) == [i \in 1..n |-> 171]

Transactions ==
    {Transaction(ALI, BOB, 1, NoSignature),
     Transaction(ALI, BOB, 2, NoSignature),
     Transaction(BOB, ALI, 1, Signature(EXPECTED_SIG_LENGTH)),
     Transaction(<<>>, BOB, 1, NoSignature),
     Transaction(ALI, ALI, 1, NoSignature),
     Transaction(SHORT, BOB, 1, Signature(MIN_SIG_LENGTH)),
     Transaction(SHORT, BOB, 1, NoSignature)}

\* The hash of each of these transactions.
TransactionHashes == [tx \in Transactions |-> calculate_transaction_hash(tx)]

tx_hash(tx) == TransactionHashes[tx]

\* TransactionValidator::validate_basic_rules
validate_basic_rules(tx) ==
    IF Len(tx.from) = 0 \/ Len(tx.to) = 0 THEN "InvalidAddress"
    ELSE IF tx.amount = 0 THEN "EmptyTransaction"
    ELSE IF tx.from = tx.to THEN "SelfTransfer"
    ELSE "Ok"

\* TransactionValidator::validate_uniqueness
validate_uniqueness(seen, tx) ==
    IF tx_hash(tx) \in seen THEN "DuplicateTransaction" ELSE "Ok"

\* TransactionValidator::validate_signature
validate_signature(tx) ==
    IF Len(tx.signature) = 0
    THEN IF Len(tx.from) < MIN_ADDRESS_LENGTH \/ Len(tx.to) < MIN_ADDRESS_LENGTH
         THEN "InvalidSignature"
         ELSE "Ok"
    ELSE IF Len(tx.signature) < MIN_SIG_LENGTH THEN "InvalidSignature"
    ELSE IF Len(tx.signature) # EXPECTED_SIG_LENGTH THEN "InvalidSignature"
    ELSE "Ok"

\* UTXOState::get_balance: a snapshot holds the addresses with a balance.
get_balance(state, address) ==
    IF address \in DOMAIN state THEN state[address] ELSE 0

\* UTXOState::update_balance in a build with (`checked`) or without overflow
\* checks: the balance is cast to i64, the delta added, the sum clamped at 0.
update_balance_build(state, address, delta, checked) ==
    LET current_balance == ToSigned(get_balance(state, address))
        sum == current_balance + delta
        wrapped == WrapSigned(sum)
        new_balance == IF wrapped > 0 THEN wrapped ELSE 0
    IN  IF checked /\ wrapped # sum
        THEN [state |-> state, panic |-> TRUE]
        ELSE [state |-> IF new_balance = 0
                        THEN [a \in DOMAIN state \ {address} |-> state[a]]
                        ELSE [a \in DOMAIN state \cup {address} |->
                                 IF a = address THEN new_balance ELSE state[a]],
              panic |-> FALSE]

\* UTXOState::update_balance where the sum stays within i64.
update_balance(state, address, delta) ==
    update_balance_build(state, address, delta, FALSE).state

\* UTXOState::set_balance
set_balance(state, address, balance) ==
    IF balance = 0
    THEN [a \in DOMAIN state \ {address} |-> state[a]]
    ELSE [a \in DOMAIN state \cup {address} |->
             IF a = address THEN balance ELSE state[a]]

\* TransactionValidator::validate_funds
validate_funds(tx, state) ==
    IF get_balance(state, tx.from) < tx.amount THEN "InsufficientFunds" ELSE "Ok"

\* validate_transaction that records the hash before it checks the funds.
validate_transaction_eager(seen, tx, state) ==
    LET checks == <<validate_basic_rules(tx), validate_uniqueness(seen, tx),
                    validate_signature(tx)>>
        failed == {i \in 1..3 : checks[i] # "Ok"}
    IN  IF failed # {}
        THEN [result |-> checks[CHOOSE i \in failed : \A j \in failed : i <= j],
              seen |-> seen]
        ELSE [result |-> validate_funds(tx, state),
              seen |-> seen \cup {tx_hash(tx)}]

\* validate_transaction without the uniqueness check.
validate_transaction_no_dedup(seen, tx, state) ==
    LET checks == <<validate_basic_rules(tx), validate_signature(tx),
                    validate_funds(tx, state)>>
        failed == {i \in 1..3 : checks[i] # "Ok"}
    IN  IF failed # {}
        THEN [result |-> checks[CHOOSE i \in failed : \A j \in failed : i <= j],
              seen |-> seen]
        ELSE [result |-> "Ok", seen |-> seen \cup {tx_hash(tx)}]

\* validate_transaction with the uniqueness check after the funds check.
validate_transaction_dedup_last(seen, tx, state) ==
    LET checks == <<validate_basic_rules(tx), validate_signature(tx),
                    validate_funds(tx, state), validate_uniqueness(seen, tx)>>
        failed == {i \in 1..4 : checks[i] # "Ok"}
    IN  IF failed # {}
        THEN [result |-> checks[CHOOSE i \in failed : \A j \in failed : i <= j],
              seen |-> seen]
        ELSE [result |-> "Ok", seen |-> seen \cup {tx_hash(tx)}]

\* TransactionValidator::validate_transaction: the first check that fails
\* is the result; the hash is recorded only when all four pass.
validate_transaction(seen, tx, state) ==
    LET checks == <<validate_basic_rules(tx), validate_uniqueness(seen, tx),
                    validate_signature(tx), validate_funds(tx, state)>>
        failed == {i \in 1..4 : checks[i] # "Ok"}
    IN  IF failed # {}
        THEN [result |-> checks[CHOOSE i \in failed : \A j \in failed : i <= j],
              seen |-> seen]
        ELSE [result |-> "Ok", seen |-> seen \cup {tx_hash(tx)}]

\* apply_transaction_to_state
apply_transaction_to_state(tx, state) ==
    update_balance(update_balance(state, tx.from, 0 - tx.amount), tx.to, tx.amount)

\* MempoolTransaction::new: the fee is always the default; arrival numbers
\* the insertions since the pool was last empty of history and is not a
\* field of the program.
MempoolTransactionNew(tx, now, arrival) ==
    [transaction |-> tx, timestamp |-> now, fee_per_byte |-> 0, arrival |-> arrival]

\* Mempool.transaction_lookup is rebuilt from the queue after every change:
\* its keys are the hashes of the queued transactions.
transaction_lookup(txs) ==
    {tx_hash(txs[i].transaction) : i \in 1..Len(txs)}

\* VecDeque::insert with positions counted from 1.
InsertAt(txs, pos, entry) ==
    SubSeq(txs, 1, pos - 1) \o <<entry>> \o SubSeq(txs, pos, Len(txs))

\* insert_with_priority that puts the new entry at the front.
insert_with_priority_front(txs, mempool_tx) == <<mempool_tx>> \o txs

\* Mempool::insert_with_priority
insert_with_priority(txs, mempool_tx) ==
    LET before == {i \in 1..Len(txs) :
                      \/ mempool_tx.fee_per_byte > txs[i].fee_per_byte
                      \/ /\ mempool_tx.fee_per_byte = txs[i].fee_per_byte
                         /\ mempool_tx.timestamp < txs[i].timestamp}
        insert_pos == IF before = {} THEN Len(txs) + 1
                      ELSE CHOOSE i \in before : \A j \in before : i <= j
    IN  InsertAt(txs, insert_pos, mempool_tx)

\* u64::saturating_sub
saturating_sub(a, b) == IF a > b THEN a - b ELSE 0

RECURSIVE expire_front(_, _, _)
\* Mempool::cleanup, first loop: pop the front while it is too old.
expire_front(txs, current_time, max_age) ==
    IF Len(txs) > 0 /\ saturating_sub(current_time, Head(txs).timestamp) > max_age
    THEN expire_front(Tail(txs), current_time, max_age)
    ELSE txs

RECURSIVE enforce_size_front(_, _)
\* The size loop popping from the front.
enforce_size_front(txs, limit) ==
    IF Len(txs) > limit THEN enforce_size_front(Tail(txs), limit) ELSE txs

RECURSIVE enforce_size(_, _)
\* Mempool::cleanup, second loop: pop the back while the queue is too long.
enforce_size(txs, limit) ==
    IF Len(txs) > limit
    THEN enforce_size(SubSeq(txs, 1, Len(txs) - 1), limit)
    ELSE txs

\* Mempool::cleanup
cleanup(txs, current_time, limit, max_age) ==
    enforce_size(expire_front(txs, current_time, max_age), limit)

\* Mempool::add_transaction on the pool p, with the two readings of the
\* system clock it makes: created in MempoolTransaction::new, current_time
\* in cleanup.  expired is the queue between the two loops of cleanup.
add_transaction(p, tx, state, created, current_time) ==
    LET v == validate_transaction(p.seen_transactions, tx, state)
        mempool_tx == MempoolTransactionNew(tx, created, Cardinality(v.seen))
        inserted == insert_with_priority(p.transactions, mempool_tx)
    IN  IF v.result # "Ok"
        THEN [pool |-> [p EXCEPT !.seen_transactions = v.seen],
              result |-> v.result, expired |-> p.transactions]
        ELSE IF tx_hash(tx) \in transaction_lookup(p.transactions)
        THEN [pool |-> [p EXCEPT !.seen_transactions = v.seen],
              result |-> "DuplicateTransaction", expired |-> p.transactions]
        ELSE [pool |-> [p EXCEPT !.seen_transactions = v.seen,
                                 !.transactions = cleanup(inserted, current_time,
                                                          p.max_size, p.max_age_seconds)],
              result |-> "Ok",
              expired |-> expire_front(inserted, current_time, p.max_age_seconds)]

RECURSIVE select_for_block(_, _, _, _)
\* The loop of get_transactions_for_block: each entry is validated by a new
\* validator against the state the entries selected so far leave.
select_for_block(txs, max_transactions, selected, temp_state) ==
    IF Len(txs) = 0 \/ Len(selected) >= max_transactions THEN selected
    ELSE LET tx == Head(txs).transaction
         IN  IF validate_transaction({}, tx, temp_state).result = "Ok"
             THEN select_for_block(Tail(txs), max_transactions, Append(selected, tx),
                                   apply_transaction_to_state(tx, temp_state))
             ELSE select_for_block(Tail(txs), max_transactions, selected, temp_state)

RECURSIVE select_against_snapshot(_, _, _, _)
\* The loop with every entry validated against the snapshot it was given,
\* none of the selected ones applied.
select_against_snapshot(txs, max_transactions, selected, state) ==
    IF Len(txs) = 0 \/ Len(selected) >= max_transactions THEN selected
    ELSE LET tx == Head(txs).transaction
         IN  select_against_snapshot(
                 Tail(txs), max_transactions,
                 IF validate_transaction({}, tx, state).result = "Ok"
                 THEN Append(selected, tx) ELSE selected,
                 state)

\* get_transactions_for_block without the temporary state.
get_transactions_for_block_no_temp(txs, max_transactions, state) ==
    select_against_snapshot(txs, max_transactions, <<>>, state)

\* Mempool::get_transactions_for_block
get_transactions_for_block(txs, max_transactions, state) ==
    select_for_block(txs, max_transactions, <<>>, state)

\* Mempool::get_pending_transactions
get_pending_transactions(txs) == [i \in 1..Len(txs) |-> txs[i].transaction]

\* Mempool::remove_transactions for one transaction: the first entry with
\* its hash leaves the queue; the validator's seen-set is not touched.
remove_transaction(txs, tx) ==
    LET hits == {i \in 1..Len(txs) :
                    tx_hash(txs[i].transaction)
                        = tx_hash(tx)}
    IN  IF hits = {} THEN txs
        ELSE LET pos == CHOOSE i \in hits : \A j \in hits : i <= j
             IN  SubSeq(txs, 1, pos - 1) \o SubSeq(txs, pos + 1, Len(txs))

RECURSIVE load_transactions(_, _, _, _, _)
\* The loop of load_from_file: add_transaction for each saved transaction,
\* errors skipped; reads[i] holds the two clock readings of the i-th call.
load_transactions(p, saved, state, reads, i) ==
    IF i > Len(saved) THEN p
    ELSE load_transactions(
             add_transaction(p, saved[i], state, reads[i][1], reads[i][2]).pool,
             saved, state, reads, i + 1)

\* clear that leaves the validator's seen-set as it is.
clear_keep_seen(p) == [p EXCEPT !.transactions = <<>>]

\* Mempool::clear
clear(p) == [p EXCEPT !.transactions = <<>>, !.seen_transactions = {}]

\* Mempool::new() and Mempool::with_limits
MempoolNew == [transactions |-> <<>>, seen_transactions |-> {},
               max_size |-> DEFAULT_MAX_SIZE, max_age_seconds |-> DEFAULT_MAX_AGE_SECONDS]

with_limits(limit, max_age) ==
    [transactions |-> <<>>, seen_transactions |-> {},
     max_size |-> limit, max_age_seconds |-> max_age]

\* The snapshots, clock readings and limits a caller can pass.
Snapshot(b) == [a \in {ALI, BOB, SHORT} |-> b]

Snapshots == {Snapshot(b) : b \in 1..MaxBalance}

Times == 0..MaxTime

PoolLimits ==
    {[max_size |-> DEFAULT_MAX_SIZE, max_age_seconds |-> DEFAULT_MAX_AGE_SECONDS]}
    \cup [max_size : 0..MaxSize, max_age_seconds : 0..MaxAge]

NoFile == [exists |-> FALSE, transactions |-> <<>>]

NoTransaction == Transaction(<<>>, <<>>, 0, NoSignature)

NoState == [a \in {} |-> 0]

NoOp == [op |-> "none", tx |-> NoTransaction, state |-> NoState, result |-> "",
         same |-> TRUE, seenSame |-> TRUE, expired |-> <<>>, prev |-> "",
         unseen |-> TRUE, elapsed |-> 0, limit |-> 0, selected |-> <<>>]

\* The pool as the record the operators work on.
Pool == [transactions |-> transactions, seen_transactions |-> seen_transactions,
         max_size |-> max_size, max_age_seconds |-> max_age_seconds]

SetPool(p) ==
    /\ transactions' = p.transactions
    /\ seen_transactions' = p.seen_transactions
    /\ max_size' = p.max_size
    /\ max_age_seconds' = p.max_age_seconds

\* Mempool::new(), nothing saved.
PoolIdle ==
    /\ transactions = MempoolNew.transactions
    /\ seen_transactions = MempoolNew.seen_transactions
    /\ max_size = MempoolNew.max_size
    /\ max_age_seconds = MempoolNew.max_age_seconds
    /\ file = NoFile
    /\ lastOp = NoOp

\* Mempool::new() or Mempool::with_limits(..), nothing saved.
PoolInit ==
    /\ transactions = <<>>
    /\ seen_transactions = {}
    /\ \E l \in PoolLimits : max_size = l.max_size /\ max_age_seconds = l.max_age_seconds
    /\ file = NoFile
    /\ lastOp = NoOp

\* A lock that is granted whoever holds it.
CanLockAlways(holder) == TRUE

\* Mutex<Chain>::lock succeeds only while no other thread holds the guard.
CanLock(holder) == holder = 0

\* One iteration of the loop of NetworkServer::process_sync_blocks: a block
\* that validates against the chain as it is by then is pushed onto
\* Chain.blocks, any other block is skipped.
sync_block(bs, block) ==
    IF validate_block(bs, block) THEN Append(bs, block) ELSE bs

\* The outcomes the databases can give to one persist_block call: every
\* write succeeds (4), the first, second or third write of store_block
\* returns an error (0, 1, 2), or a write of the transaction index does (3).
StoreOutcomes == 0..4

WriteFails(done) == done < 4

FaultAllowed(done) == WriteFails(done) => persistent /\ faults < MaxFaults

\* A direct call of Chain::add_block by the thread that holds the chain.
AddBlockCall(block, done) ==
    /\ UNCHANGED <<forkVars, poolVars, extVars>>
    /\ CanLock(chainLock)
    /\ FaultAllowed(done)
    /\ WriteFails(done) => validate_block(blocks, block)
    /\ Len(blocks) < MaxChain
    /\ LET r == add_block(blocks, store, persistent, block, done)
       IN  /\ blocks' = r.blocks
           /\ store' = r.store
           /\ lastAdd' = [replay |-> block \in Range(blocks),
                          ret    |-> r.ret,
                          same   |-> /\ r.blocks = blocks
                                     /\ r.store = store
                                     /\ transactions' = transactions
                                     /\ seen_transactions' = seen_transactions,
                          failed |-> WriteFails(done)]
           /\ faults' = IF WriteFails(done) THEN faults + 1 ELSE faults
    /\ UNCHANGED <<persistent, chainLock, pc, msg, syncLeft>>

\* process_sync_blocks takes the chain lock, applies the blocks of the
\* Blocks response one after the other and drops the lock.  The response
\* holds at most MaxBatch blocks, each whatever the peer sent.
SyncThread == NumWorkers + 1

SyncLock(n) ==
    /\ syncLeft = 0
    /\ CanLock(chainLock)
    /\ chainLock' = SyncThread
    /\ syncLeft' = n
    /\ UNCHANGED <<blocks, persistent, store, pc, msg, faults, lastAdd,
                   forkVars, poolVars, extVars>>

SyncBlock(block) ==
    /\ chainLock = SyncThread
    /\ syncLeft > 0
    /\ Len(blocks) < MaxChain
    /\ blocks' = sync_block(blocks, block)
    /\ syncLeft' = syncLeft - 1
    /\ UNCHANGED <<persistent, store, chainLock, pc, msg, faults, lastAdd,
                   forkVars, poolVars, extVars>>

SyncUnlock ==
    /\ chainLock = SyncThread
    /\ chainLock' = 0
    /\ syncLeft' = 0
    /\ UNCHANGED <<blocks, persistent, store, pc, msg, faults, lastAdd,
                   forkVars, poolVars, extVars>>

\* handle_message, MessageType::NewBlock, one step per statement.
\* read_message returns a NewBlock; which block it carries plays no part
\* until the handler holds the lock, where the model draws it.
NewBlockRecv(w) ==
    /\ pc[w] = "idle"
    /\ pc' = [pc EXCEPT ![w] = "recv"]
    /\ UNCHANGED <<blocks, persistent, store, chainLock, msg, syncLeft, faults, lastAdd,
                   forkVars, poolVars, extVars>>

\* let mut chain_guard = chain.lock().unwrap();
NewBlockLock(w, block) ==
    /\ pc[w] = "recv"
    /\ CanLock(chainLock)
    /\ chainLock' = w
    /\ pc' = [pc EXCEPT ![w] = "locked"]
    /\ msg' = [msg EXCEPT ![w] = block]
    /\ UNCHANGED <<blocks, persistent, store, syncLeft, faults, lastAdd,
                   forkVars, poolVars, extVars>>

\* if chain_guard.validate_block(&block)
NewBlockValidate(w) ==
    /\ pc[w] = "locked"
    /\ pc' = [pc EXCEPT ![w] = IF validate_block(blocks, msg[w])
                                THEN "valid" ELSE "rejected"]
    /\ UNCHANGED <<blocks, persistent, store, chainLock, msg, syncLeft, faults, lastAdd,
                   forkVars, poolVars, extVars>>

\* chain_guard.add_block(block): the validation inside add_block ...
NewBlockAddValidate(w) ==
    /\ pc[w] = "valid"
    /\ pc' = [pc EXCEPT ![w] = IF validate_block(blocks, msg[w])
                                THEN "add" ELSE "rejected"]
    /\ UNCHANGED <<blocks, persistent, store, chainLock, msg, syncLeft, faults, lastAdd,
                   forkVars, poolVars, extVars>>

\* ... and then persist_block and self.blocks.push(block).
NewBlockAddPush(w, done) ==
    /\ pc[w] = "add"
    /\ Len(blocks) < MaxChain
    /\ FaultAllowed(done)
    /\ LET p == persist_block(store, persistent, msg[w], done)
       IN  /\ store' = p.store
           /\ blocks' = IF p.ok THEN Append(blocks, msg[w]) ELSE blocks
           /\ pc' = [pc EXCEPT ![w] = IF p.ok THEN "added" ELSE "failed"]
           /\ faults' = IF WriteFails(done) THEN faults + 1 ELSE faults
    /\ UNCHANGED <<persistent, chainLock, msg, syncLeft, lastAdd,
                   forkVars, poolVars, extVars>>

\* drop(chain_guard); MessageResult::Success
NewBlockUnlock(w) ==
    /\ pc[w] \in {"added", "failed", "rejected"}
    /\ chainLock' = 0
    /\ pc' = [pc EXCEPT ![w] = "idle"]
    /\ msg' = [msg EXCEPT ![w] = genesis_block]
    /\ UNCHANGED <<blocks, persistent, store, syncLeft, faults, lastAdd,
                   forkVars, poolVars, extVars>>

ChainNext ==
    \/ \E b \in WireBlocks, done \in StoreOutcomes : AddBlockCall(b, done)
    \/ \E n \in 1..MaxBatch : SyncLock(n)
    \/ \E b \in WireBlocks : SyncBlock(b)
    \/ SyncUnlock
    \/ \E w \in Workers : NewBlockRecv(w)
    \/ \E w \in Workers, b \in WireBlocks : NewBlockLock(w, b)
    \/ \E w \in Workers : NewBlockValidate(w)
    \/ \E w \in Workers : NewBlockAddValidate(w)
    \/ \E w \in Workers, done \in StoreOutcomes : NewBlockAddPush(w, done)
    \/ \E w \in Workers : NewBlockUnlock(w)

InitChain == ChainInit /\ ForkIdle /\ PoolIdle /\ ExtIdle

SpecChain == InitChain /\ [][ChainNext]_vars

\* Chain::new_persistent_with_path at a path that holds no store yet.
OpenInit ==
    /\ ChainInit
    /\ persistent
    /\ blocks = load_from_storage(EmptyStore).blocks
    /\ store = load_from_storage(EmptyStore).store

\* The process ends and Chain::new_persistent_with_path opens the same path
\* again: memory is what load_from_storage reads.
Reopen ==
    /\ CanLock(chainLock)
    /\ load_from_storage(store).ok
    /\ blocks' = load_from_storage(store).blocks
    /\ store' = load_from_storage(store).store
    /\ lastAdd' = NoAdd
    /\ UNCHANGED <<persistent, chainLock, pc, msg, syncLeft, faults,
                   forkVars, poolVars, extVars>>

OpenNext ==
    \/ \E b \in WireBlocks, done \in StoreOutcomes : AddBlockCall(b, done)
    \/ Reopen

InitOpen == OpenInit /\ ForkIdle /\ PoolIdle /\ ExtIdle

SpecOpen == InitOpen /\ [][OpenNext]_vars

\* ------------------------------------------------------------------------
\* Claims about the chain
\* ------------------------------------------------------------------------
HashLinked(bs) ==
    \A i \in 2..Len(bs) :
        /\ bs[i].previous_hash = bs[i - 1].hash
        /\ bs[i].height = i - 1

Occurrences(bs, block) == Cardinality({i \in 1..Len(bs) : bs[i] = block})

\* C1: after any sequence of add_block calls, NewBlock deliveries and sync
\* batches from Chain::new(), every block after the first names the hash of
\* its predecessor as previous_hash and has its index as height.
C1_HashLinkage == HashLinked(blocks)

\* C1 witness: the chain has grown by two blocks beyond the genesis block.
C1_Witness == Len(blocks) >= 3 /\ HashLinked(blocks)

\* C2: add_block of a block that is already on the chain returns false and
\* leaves the block sequence, the store and the mempool (queue and seen-set)
\* as they were.
C2_ReplayRejected == lastAdd.replay => ~lastAdd.ret /\ lastAdd.same

\* C2 witness: a block other than genesis was replayed on a persistent chain
\* that has grown, and the call was refused.
C2_Witness ==
    /\ lastAdd.replay /\ ~lastAdd.ret /\ lastAdd.same
    /\ persistent /\ Len(blocks) >= 2

\* C3: whatever the interleaving of the per-peer workers, no block is on the
\* shared chain twice, the chain stays hash-linked, and a worker whose block
\* was appended finds it exactly once on the chain, as its tip, until it
\* releases the lock.
C3_AtMostOnce ==
    /\ \A i, j \in 1..Len(blocks) : i # j => blocks[i] # blocks[j]
    /\ HashLinked(blocks)
    /\ \A w \in Workers :
          pc[w] = "added" =>
              /\ Last(blocks) = msg[w]
              /\ Occurrences(blocks, msg[w]) = 1
    /\ Cardinality({w \in Workers : pc[w] \notin {"idle", "recv"}}) <= 1

\* C3 witness: one worker has appended its block and still holds the lock
\* while another worker has received a NewBlock and waits for the lock.
C3_Witness ==
    \E w1, w2 \in Workers :
        /\ w1 # w2
        /\ pc[w1] = "added" /\ Last(blocks) = msg[w1]
        /\ pc[w2] = "recv"

\* ------------------------------------------------------------------------
\* Fork choice: initial states and steps
\* ------------------------------------------------------------------------
\* ForkChoiceWithReorg::new(MaxReorgDepth), or a bare ForkChoice built by
\* ForkChoice::with_genesis_chain(Chain::new()) as the command line does.
ForkInit ==
    /\ emitted = <<>>
    /\ forkLast = NoFork
    /\ reorg_history = <<>>
    /\ max_reorg_depth = MaxReorgDepth
    /\ \/ /\ tracking = TRUE
          /\ chains = ForkNew.chains
          /\ best_chain_hash = ForkNew.best
          /\ added = <<>>
       \/ /\ tracking = FALSE
          /\ chains = with_genesis_chain(<<genesis_block>>).chains
          /\ best_chain_hash = with_genesis_chain(<<genesis_block>>).best
          /\ added = <<genesis_block>>

\* The chain of the node is not touched by the fork choice steps.
ChainIdle == ChainInit /\ ~persistent

\* ForkChoice::add_block, through ForkChoiceWithReorg::add_block when the
\* fork choice is wrapped.
ForkAddBlock(previous_hash, nonce, timestamp, height) ==
    /\ Len(added) < MaxAdds
    /\ LET block == BlockNew(previous_hash, nonce, timestamp, height)
           old_best == BestTip(chains, best_chain_hash)
       IN  \E r \in fork_add_block(chains, best_chain_hash, block) :
              LET t == reorg_step(reorg_history, max_reorg_depth, old_best, block, r)
              IN  /\ chains' = r.chains
                  /\ best_chain_hash' = r.best
                  /\ added' = IF r.result = "Ok" THEN Append(added, block) ELSE added
                  /\ reorg_history' = IF tracking THEN t.history ELSE reorg_history
                  /\ emitted' = IF tracking THEN emitted \o t.event ELSE emitted
                  /\ forkLast' =
                         [result    |-> r.result,
                          sentinel  |-> previous_hash = ZERO1,
                          known     |-> previous_hash \in KnownHashes,
                          height_ok |-> \E parent \in find_chain_with_tip(chains, previous_hash) :
                                            height = Len(parent),
                          same      |-> r.chains = chains /\ r.best = best_chain_hash]
    /\ UNCHANGED <<tracking, max_reorg_depth, chainVars, poolVars, extVars>>

ForkNext ==
    \E previous_hash \in ParentHashes, nonce \in Nonces, timestamp \in Timestamps :
        \E height \in ForkHeights(previous_hash) :
            ForkAddBlock(previous_hash, nonce, timestamp, height)

InitFork == ChainIdle /\ ForkInit /\ PoolIdle /\ ExtIdle

SpecFork == InitFork /\ [][ForkNext]_vars

\* ------------------------------------------------------------------------
\* Mempool: steps
\* ------------------------------------------------------------------------
\* Mempool::add_transaction
AddTransaction(tx, state, created, current_time) ==
    /\ Cardinality(seen_transactions) < MaxSeen
    /\ LET r == add_transaction(Pool, tx, state, created, current_time)
       IN  /\ SetPool(r.pool)
           /\ lastOp' = [NoOp EXCEPT
                            !.op = "add", !.tx = tx, !.state = state,
                            !.result = r.result,
                            !.same = (r.pool.transactions = transactions),
                            !.seenSame = (r.pool.seen_transactions = seen_transactions),
                            !.expired = r.expired,
                            !.unseen = (tx_hash(tx) \notin seen_transactions),
                            !.prev = IF lastOp.op = "add" /\ lastOp.tx = tx
                                     THEN lastOp.result ELSE ""]
    /\ UNCHANGED <<file, chainVars, forkVars, extVars>>

\* Mempool::remove_transactions(&[tx])
RemoveTransactions(tx) ==
    /\ transactions' = remove_transaction(transactions, tx)
    /\ lastOp' = [NoOp EXCEPT
                     !.op = "remove", !.result = "Ok",
                     !.same = (transactions' = transactions)]
    /\ UNCHANGED <<seen_transactions, max_size, max_age_seconds, file,
                   chainVars, forkVars, extVars>>

\* Mempool::clear
Clear ==
    /\ SetPool(clear(Pool))
    /\ lastOp' = [NoOp EXCEPT
                     !.op = "clear", !.result = "Ok",
                     !.same = (transactions = <<>>),
                     !.seenSame = (seen_transactions = {})]
    /\ UNCHANGED <<file, chainVars, forkVars, extVars>>

\* Mempool::save_to_file
SaveToFile ==
    /\ file' = [exists |-> TRUE, transactions |-> get_pending_transactions(transactions)]
    /\ lastOp' = [NoOp EXCEPT !.op = "save", !.result = "Ok"]
    /\ UNCHANGED <<transactions, seen_transactions, max_size, max_age_seconds,
                   chainVars, forkVars, extVars>>

\* The node starts again: a new pool takes the place of the old one, the
\* file stays.
NewPool(limits) ==
    /\ SetPool(with_limits(limits.max_size, limits.max_age_seconds))
    /\ lastOp' = [NoOp EXCEPT !.op = "new", !.result = "Ok"]
    /\ UNCHANGED <<file, chainVars, forkVars, extVars>>

Span(reads) ==
    LET all == {reads[i][j] : i \in DOMAIN reads, j \in 1..2}
    IN  IF all = {} THEN 0
        ELSE (CHOOSE t \in all : \A u \in all : u <= t)
             - (CHOOSE t \in all : \A u \in all : t <= u)

\* Mempool::load_from_file
LoadFromFile(state, reads) ==
    /\ IF ~file.exists
       THEN UNCHANGED <<transactions, seen_transactions, max_size, max_age_seconds>>
       ELSE SetPool(load_transactions(clear(Pool), file.transactions, state, reads, 1))
    /\ lastOp' = [NoOp EXCEPT
                     !.op = "load", !.state = state, !.result = "Ok",
                     !.elapsed = Span(reads)]
    /\ UNCHANGED <<file, chainVars, forkVars, extVars>>

FileLength == Len(file.transactions)

PoolNext ==
    \/ \E tx \in Transactions, state \in Snapshots, created \in Times,
          current_time \in Times :
          AddTransaction(tx, state, created, current_time)
    \/ \E tx \in Transactions : RemoveTransactions(tx)
    \/ Clear

InitPool == ChainIdle /\ ForkIdle /\ PoolInit /\ ExtIdle

SpecPool == InitPool /\ [][PoolNext]_vars

\* The transactions that pass the checks that do not look at the state.
WellFormed ==
    {tx \in Transactions :
        validate_basic_rules(tx) = "Ok" /\ validate_signature(tx) = "Ok"}

\* Saving and loading: well-formed transactions are added against the one snapshot
\* Snapshot(MaxBalance) with a clock that stands still during the call, the
\* pool is saved, and the file is loaded into the same pool or into a new
\* one, against any snapshot and with any clock readings.
PersistNext ==
    \/ \E tx \in WellFormed, now \in Times :
          AddTransaction(tx, Snapshot(MaxBalance), now, now)
    \/ SaveToFile
    \/ \E limits \in PoolLimits : NewPool(limits)
    \/ \E state \in Snapshots, reads \in [1..FileLength -> Times \X Times] :
          LoadFromFile(state, reads)

SpecPersist == InitPool /\ [][PersistNext]_vars

TipTimestamp(k) == Last(chains[k]).timestamp

ScenarioS4 ==
    /\ tracking
    /\ Len(added) = 5
    /\ added[1].previous_hash = ZERO1
    /\ added[2].previous_hash = added[1].hash
    /\ added[3].previous_hash = added[2].hash
    /\ added[4].previous_hash = added[2].hash
    /\ added[4].height = 2
    /\ added[4] # added[3]
    /\ added[5].previous_hash = added[4].hash
    /\ added[5].height = 3

ReorgEvent(old, new) == [old_tip |-> old.hash, new_tip |-> new.hash, depth |-> 1]

WasEmitted(event) == \E i \in 1..Len(emitted) : emitted[i] = event

S4Outcome ==
    /\ best_chain_hash = added[5].hash
    /\ total_chains = 2
    /\ has_forks

\* C5 as stated: in scenario S4, whatever the timestamp of B', the best tip
\* is C', two chains are known, has_forks is true and an event from B to C'
\* has been emitted.
C5_AnyTimestamp ==
    ScenarioS4 => S4Outcome /\ WasEmitted(ReorgEvent(added[3], added[5]))

\* C5: in scenario S4 the best tip is C', two chains are known and has_forks
\* is true.  When B' is not newer than B, add_block(B') emits nothing and
\* add_block(C') emits the event from B to C'.  When B' is newer than B, B'
\* takes the best tip on the tie-break: add_block(B') emits the event from B
\* to B', add_block(C') emits the event from B' to C', and no event from B
\* to C' is emitted.
C5_ReorgScenario ==
    ScenarioS4 =>
        /\ S4Outcome
        /\ Len(emitted) >= 3
        /\ IF added[4].timestamp > added[3].timestamp
           THEN /\ SubSeq(emitted, Len(emitted) - 1, Len(emitted))
                     = <<ReorgEvent(added[3], added[4]), ReorgEvent(added[4], added[5])>>
                /\ ~WasEmitted(ReorgEvent(added[3], added[5]))
           ELSE /\ SubSeq(emitted, Len(emitted) - 1, Len(emitted))
                     = <<ReorgEvent(added[2], added[3]), ReorgEvent(added[3], added[5])>>

\* Scenario S4 has run with a B' newer than B.
C5_Witness ==
    /\ ScenarioS4
    /\ added[4].timestamp > added[3].timestamp
    /\ best_chain_hash = added[5].hash
    /\ Last(emitted) = ReorgEvent(added[4], added[5])

\* ------------------------------------------------------------------------
\* Mempool: properties
\* ------------------------------------------------------------------------
PendingSet == Range(get_pending_transactions(transactions))

Funded(tx, state) == validate_funds(tx, state) = "Ok"

\* C6: no two entries of the pool have the same transaction hash, and an
\* add_transaction that directly follows a successful add_transaction of
\* the same transaction returns DuplicateTransaction and leaves the queue
\* as it was.
C6_Dedup ==
    /\ \A i, j \in 1..Len(transactions) :
          i # j => tx_hash(transactions[i].transaction)
                       # tx_hash(transactions[j].transaction)
    /\ lastOp.op = "add" /\ lastOp.prev = "Ok"
          => lastOp.result = "DuplicateTransaction" /\ lastOp.same

\* A transaction held by the pool has been added a second time.
C6_Witness ==
    /\ lastOp.op = "add"
    /\ lastOp.prev = "Ok"
    /\ lastOp.result = "DuplicateTransaction"
    /\ lastOp.tx \in PendingSet

\* s selects its elements from t in the order t has them; t has no element
\* twice.
IsSubsequence(sub, t) ==
    /\ \A i \in 1..Len(sub) : \E j \in 1..Len(t) : t[j] = sub[i]
    /\ \A i, j \in 1..Len(sub) :
          i < j => \E k, l \in 1..Len(t) : k < l /\ t[k] = sub[i] /\ t[l] = sub[j]

\* C7: the queue is sorted by fee descending, then timestamp ascending,
\* entries equal in both stand in insertion order, and what
\* get_transactions_for_block returns is a subsequence of the queue.
C7_PriorityOrder ==
    /\ \A i, j \in 1..Len(transactions) :
          i < j =>
             /\ transactions[i].fee_per_byte >= transactions[j].fee_per_byte
             /\ transactions[i].fee_per_byte = transactions[j].fee_per_byte
                   => transactions[i].timestamp <= transactions[j].timestamp
             /\ (/\ transactions[i].fee_per_byte = transactions[j].fee_per_byte
                 /\ transactions[i].timestamp = transactions[j].timestamp)
                   => transactions[i].arrival < transactions[j].arrival
    /\ \A max_transactions \in 0..(MaxSeen + 1), state \in Snapshots :
          LET selected == get_transactions_for_block(transactions, max_transactions, state)
          IN  /\ IsSubsequence(selected, get_pending_transactions(transactions))
              /\ Len(selected) <= max_transactions

\* Three entries: one that came later stands before an older arrival because
\* its timestamp is lower, two share a timestamp, and a block template
\* takes some of the queue but not all of it.
C7_Witness ==
    /\ Len(transactions) = 3
    /\ \E i, j \in 1..3 :
          /\ i < j
          /\ transactions[i].timestamp < transactions[j].timestamp
          /\ transactions[i].arrival > transactions[j].arrival
    /\ \E i, j \in 1..3 :
          i < j /\ transactions[i].timestamp = transactions[j].timestamp
    /\ \E state \in Snapshots :
          Len(get_transactions_for_block(transactions, 3, state)) \in 1..2

\* C8 as stated: a load against the snapshot the saved transactions were
\* added against leaves the pool with exactly the saved transactions.
C8_ExactRoundTrip ==
    lastOp.op = "load" /\ file.exists /\ lastOp.state = Snapshot(MaxBalance)
        => PendingSet = Range(file.transactions)

FundedInFile(state) == {tx \in Range(file.transactions) : Funded(tx, state)}

\* C8: load_from_file returns Ok and the pool then holds only transactions
\* of the file, none that fails validation against the snapshot given.  It
\* holds every saved transaction that validates when the pool's max_size is
\* at least their number and the clock readings during the load are no more
\* than max_age_seconds apart; otherwise cleanup can drop some.
C8_RoundTrip ==
    lastOp.op = "load" /\ file.exists =>
        /\ lastOp.result = "Ok"
        /\ PendingSet \subseteq FundedInFile(lastOp.state)
        /\ Len(transactions) = Cardinality(PendingSet)
        /\ (/\ Cardinality(FundedInFile(lastOp.state)) <= max_size
            /\ lastOp.elapsed <= max_age_seconds)
              => PendingSet = FundedInFile(lastOp.state)

\* A file of three transactions has been loaded against a snapshot that
\* funds two of them, and the pool holds those two.
C8_Witness ==
    /\ lastOp.op = "load"
    /\ file.exists
    /\ Len(file.transactions) = 3
    /\ Cardinality(FundedInFile(lastOp.state)) = 2
    /\ PendingSet = FundedInFile(lastOp.state)

\* C9: add_transaction of a well-formed transaction not seen before returns
\* InsufficientFunds when the sender's balance is below the amount, leaving
\* queue and seen-set as they were, and returns Ok when the balance covers
\* the amount; after a refusal for funds the transaction is still unseen.
C9_InsufficientFunds ==
    lastOp.op = "add" =>
        /\ lastOp.tx \in WellFormed /\ lastOp.unseen /\ ~Funded(lastOp.tx, lastOp.state)
              => lastOp.result = "InsufficientFunds" /\ lastOp.same /\ lastOp.seenSame
        /\ lastOp.tx \in WellFormed /\ lastOp.unseen /\ Funded(lastOp.tx, lastOp.state)
              => lastOp.result = "Ok"
        /\ lastOp.result = "InsufficientFunds"
              => tx_hash(lastOp.tx) \notin seen_transactions
        /\ lastOp.prev = "InsufficientFunds" => lastOp.unseen

\* A transaction refused for funds has been added again against a snapshot
\* that covers it, and is in the pool.
C9_Witness ==
    /\ lastOp.op = "add"
    /\ lastOp.prev = "InsufficientFunds"
    /\ lastOp.result = "Ok"
    /\ lastOp.tx \in PendingSet

Min(a, b) == IF a < b THEN a ELSE b

\* C10: the queue is never longer than max_size, and after a successful
\* add_transaction it is the queue left by the expiry loop cut down to its
\* first max_size entries.
C10_SizeBound ==
    /\ Len(transactions) <= max_size
    /\ lastOp.op = "add" /\ lastOp.result = "Ok"
          => transactions = SubSeq(lastOp.expired, 1, Min(Len(lastOp.expired), max_size))

\* An add has pushed an older entry off the back of a full queue of two.
C10_Witness ==
    /\ lastOp.op = "add"
    /\ lastOp.result = "Ok"
    /\ Len(lastOp.expired) > max_size
    /\ Len(transactions) = 2
    /\ Last(lastOp.expired).transaction # lastOp.tx
    /\ lastOp.tx \in PendingSet

\* ------------------------------------------------------------------------
\* Proof of work
\* ------------------------------------------------------------------------
\* Strings of the engine are sequences of character codes: CHAR_0 is '0',
\* CHAR_F is 'f'.
CHAR_0 == 48
CHAR_F == 102
HASH_LENGTH == 64

Repeat(c, n) == [i \in 1..n |-> c]

\* `<` on str: bytewise lexicographic, a proper prefix is the smaller one.
StrLess(a, b) ==
    \E i \in 1..(Len(a) + 1) :
        /\ i <= Len(b)
        /\ \A j \in 1..(i - 1) : a[j] = b[j]
        /\ (i = Len(a) + 1 \/ a[i] < b[i])

\* ProofOfWork::calculate_target, for a difficulty of at most 64; above,
\* `64 - difficulty` underflows and the String cannot be built.
calculate_target(d) == Repeat(CHAR_0, d) \o Repeat(CHAR_F, HASH_LENGTH - d)

TargetPanics(d) == d > HASH_LENGTH

validate_proof(hash, target) == StrLess(hash, target)

\* ProofOfWork::validate_block: the hash field of the header is compared as
\* it stands.
pow_validate_block(d, block) ==
    validate_proof(block.hash, calculate_target(d))

\* The nonce loop of mine_block from `nonce` on: digest[t][n] is the sha256
\* hex digest Block::new computes for the call's previous_hash, transactions
\* and height with timestamp t and nonce n; clock[n] is what the system clock
\* shows while trial n runs.  The variant takes the timestamp of each trial
\* from the clock.
RECURSIVE mine_loop_rereading(_, _, _, _, _, _, _)
mine_loop_rereading(d, digest, clock, previous_hash, height, nonce, attempts) ==
    LET block == [BlockNew(previous_hash, nonce, clock[nonce], height)
                     EXCEPT !.hash = digest[clock[nonce]][nonce]]
    IN  IF validate_proof(block.hash, calculate_target(d))
        THEN [found |-> TRUE, block |-> block, nonce |-> nonce,
              hash |-> block.hash, attempts |-> attempts + 1]
        ELSE IF nonce = MaxNonce
             THEN [found |-> FALSE]
             ELSE mine_loop_rereading(d, digest, clock, previous_hash, height,
                                      nonce + 1, attempts + 1)

RECURSIVE mine_loop(_, _, _, _, _, _, _)
mine_loop(d, digest, timestamp, previous_hash, height, nonce, attempts) ==
    LET block == [BlockNew(previous_hash, nonce, timestamp, height)
                     EXCEPT !.hash = digest[timestamp][nonce]]
    IN  IF validate_proof(block.hash, calculate_target(d))
        THEN [found |-> TRUE, block |-> block, nonce |-> nonce,
              hash |-> block.hash, attempts |-> attempts + 1]
        ELSE IF nonce = MaxNonce
             THEN [found |-> FALSE]
             ELSE mine_loop(d, digest, timestamp, previous_hash, height,
                            nonce + 1, attempts + 1)

\* mine_block with the clock read anew for every trial.
mine_block_rereading(d, digest, clock, previous_hash, height) ==
    mine_loop_rereading(d, digest, clock, previous_hash, height, 0, 0)

\* ProofOfWork::mine_block: the clock is read once, on entry; found is FALSE
\* when no nonce up to MaxNonce meets the target (the loop goes on).
mine_block(d, digest, clock, previous_hash, height) ==
    mine_loop(d, digest, clock[0], previous_hash, height, 0, 0)

\* The summing loop of adjust_difficulty from block i on; -1 when a
\* subtraction or an addition overflows in a build with overflow checks.
RECURSIVE total_time(_, _, _, _)
total_time(last_blocks, i, total, checked) ==
    IF i > Len(last_blocks)
    THEN total
    ELSE LET diff == last_blocks[i].timestamp - last_blocks[i - 1].timestamp
             sum == total + (diff % WordMod)
         IN  IF checked /\ (diff < 0 \/ sum >= WordMod)
             THEN -1
             ELSE total_time(last_blocks, i + 1, sum % WordMod, checked)

\* ProofOfWork::adjust_difficulty; `checked` is a build with overflow checks
\* (the dev profile), where an overflowing subtraction, addition or
\* multiplication panics; without them the result wraps.
adjust_difficulty(d, last_blocks, t, checked) ==
    IF Len(last_blocks) < 2
    THEN [difficulty |-> d, panic |-> FALSE]
    ELSE LET total == total_time(last_blocks, 2, 0, checked)
             avg_block_time == total \div (Len(last_blocks) - 1)
         IN  IF total < 0
             THEN [difficulty |-> d, panic |-> TRUE]
             ELSE IF avg_block_time < t \div 2
             THEN [difficulty |-> d + 1, panic |-> FALSE]
             ELSE IF checked /\ t * 2 >= WordMod
             THEN [difficulty |-> d, panic |-> TRUE]
             ELSE IF avg_block_time > (t * 2) % WordMod
             THEN [difficulty |-> IF d > 1 THEN d - 1 ELSE d, panic |-> FALSE]
             ELSE [difficulty |-> d, panic |-> FALSE]

\* Hash fields a block handed to validate_block can carry: 64 characters of
\* z zeros followed by one repeated character, '1' (49), 'f' or '/' (47, a
\* character below '0'), or fewer than 64 zeros and nothing else.
PowHashes ==
    {Repeat(CHAR_0, z) \o Repeat(c, HASH_LENGTH - z) :
        z \in 0..HASH_LENGTH, c \in {49, CHAR_F, 47}}
    \cup {Repeat(CHAR_0, z) : z \in 0..(HASH_LENGTH - 1)}

\* Digests the nonce loop can meet: z zeros followed by '1' (49).
MineHashes ==
    {Repeat(CHAR_0, z) \o Repeat(49, HASH_LENGTH - z) : z \in 0..MaxZeros}

ValidateDifficulties == 0..HASH_LENGTH

Difficulties == 0..MaxDifficulty

Stamps == 0..MaxStamp

StampLists == UNION {[1..n -> Stamps] : n \in 0..MaxBlocks}

LastBlocks(stamps) ==
    [i \in 1..Len(stamps) |-> BlockNew(ZERO64, 0, stamps[i], i - 1)]

PowInit ==
    /\ difficulty \in {DEFAULT_DIFFICULTY} \cup Difficulties
    /\ powLast = NoPow

\* The record of the last call is taken by one call at a time: the next
\* call follows a set_difficulty.
PowReady == powLast.op \in {"none", "set"}

\* ProofOfWork::set_difficulty.
SetDifficulty(d) ==
    /\ difficulty' = d
    /\ powLast' = [op |-> "set", d |-> d]
    /\ UNCHANGED <<coreVars, stateVars, moreVars>>

\* ProofOfWork::with_difficulty(d).validate_block(block).
ValidateBlock(d, hash) ==
    /\ ~TargetPanics(d)
    /\ LET block == [BlockNew(ZERO64, 0, 1, 1) EXCEPT !.hash = hash]
       IN  powLast' = [op |-> "validate", d |-> d, block |-> block,
                       ret |-> pow_validate_block(d, block)]
    /\ difficulty' = d
    /\ UNCHANGED <<coreVars, stateVars, moreVars>>

\* MiningPool::mine_block on the block after genesis.
MineBlock(digest, clock) ==
    /\ ~TargetPanics(difficulty)
    /\ LET r == mine_block(difficulty, digest, clock, genesis_block.hash, 1)
       IN  /\ r.found
           /\ powLast' = [op |-> "mine", d |-> difficulty, digest |-> digest,
                          entry_time |-> clock[0], result |-> r]
    /\ UNCHANGED <<difficulty, coreVars, stateVars, moreVars>>

\* MiningPool::adjust_difficulty.
AdjustDifficulty(stamps, t, checked) ==
    /\ difficulty < MaxDifficulty
    /\ LET r == adjust_difficulty(difficulty, LastBlocks(stamps), t, checked)
       IN  /\ difficulty' = r.difficulty
           /\ powLast' = [op |-> "adjust", d |-> difficulty, stamps |-> stamps,
                          t |-> t, checked |-> checked, panic |-> r.panic,
                          ret |-> r.difficulty]
    /\ UNCHANGED <<coreVars, stateVars, moreVars>>

PowNext ==
    \/ \E d \in Difficulties : SetDifficulty(d)
    \/ /\ PowReady
       /\ \E d \in ValidateDifficulties, hash \in PowHashes : ValidateBlock(d, hash)
    \/ /\ PowReady
       /\ \E digest \in [Timestamps -> [0..MaxNonce -> MineHashes]],
             clock \in [0..MaxNonce -> Timestamps] : MineBlock(digest, clock)
    \/ /\ PowReady
       /\ \E stamps \in StampLists, t \in 0..MaxTarget, checked \in BOOLEAN :
             AdjustDifficulty(stamps, t, checked)

InitPow == ChainIdle /\ ForkIdle /\ PoolIdle /\ PowInit /\ StateIdle /\ MoreIdle

SpecPow == InitPow /\ [][PowNext]_vars

\* The hash starts with at least d '0' characters.
LeadingZeros(hash, d) ==
    Len(hash) >= d /\ \A i \in 1..d : hash[i] = CHAR_0

\* C11: for every difficulty d in 1..64 and every block, when validate_block
\* of a ProofOfWork of difficulty d returns true the hash field of the block
\* starts with at least d '0' characters.
C11_PowTarget ==
    (powLast.op = "validate" /\ powLast.d \in 1..HASH_LENGTH /\ powLast.ret)
        => LeadingZeros(powLast.block.hash, powLast.d)

\* C12: mine_block returns the block of the smallest nonce whose digest, taken
\* with the timestamp read on entry, is below the target; attempts is that
\* nonce plus one, the hash of the result is the hash of its block, and the
\* block passes validate_block at the same difficulty.
C12_FirstValidNonce ==
    powLast.op = "mine" =>
        LET r == powLast.result
            t == powLast.entry_time
            target == calculate_target(powLast.d)
            below(n) == StrLess(powLast.digest[t][n], target)
        IN  /\ below(r.nonce)
            /\ \A n \in 0..(r.nonce - 1) : ~below(n)
            /\ r.block.nonce = r.nonce
            /\ r.block.timestamp = t
            /\ r.block.hash = powLast.digest[t][r.nonce]
            /\ r.attempts = r.nonce + 1
            /\ r.hash = r.block.hash
            /\ pow_validate_block(powLast.d, r.block)

\* C12 witness: a block was mined at difficulty 2 after the first trials
\* had failed.
C12_Witness ==
    /\ powLast.op = "mine"
    /\ powLast.d = 2
    /\ powLast.result.nonce >= 1

\* C13: with at least two blocks and a difficulty of at least 1,
\* adjust_difficulty returns d+1 exactly when the mean of the consecutive
\* timestamp differences is below t/2, max(1, d-1) exactly when it is above
\* 2*t, and d otherwise; with fewer than two blocks it returns d.  (The
\* differences sum to the last timestamp minus the first.)
C13_AdjustRule ==
    (powLast.op = "adjust" /\ powLast.d >= 1) =>
        LET s == powLast.stamps
            d == powLast.d
            t == powLast.t
            m == Len(s) - 1
            expected ==
                IF Len(s) < 2 THEN d
                ELSE IF 2 * (s[Len(s)] - s[1]) < t * m THEN d + 1
                ELSE IF (s[Len(s)] - s[1]) > 2 * t * m
                     THEN (IF d - 1 >= 1 THEN d - 1 ELSE 1)
                ELSE d
        IN  ~powLast.panic /\ powLast.ret = expected /\ difficulty = expected

\* ------------------------------------------------------------------------
\* Account state
\* ------------------------------------------------------------------------
Addresses == {ALI, BOB}

Balances == 0..(WordMod - 1)

Deltas == (0 - WordMod \div 2)..(WordMod \div 2 - 1)

StateInit ==
    /\ balances = NoState
    /\ stateLast = [op |-> "none"]

\* UTXOState::update_balance(address, delta)
UpdateBalance(address, delta, checked) ==
    /\ LET r == update_balance_build(balances, address, delta, checked)
       IN  /\ balances' = r.state
           /\ stateLast' = [op |-> "update", address |-> address, delta |-> delta,
                            before |-> get_balance(balances, address),
                            panic |-> r.panic]
    /\ UNCHANGED <<coreVars, powVars, moreVars>>

\* UTXOState::set_balance(address, balance)
SetBalance(address, balance) ==
    /\ balances' = set_balance(balances, address, balance)
    /\ stateLast' = [op |-> "set", address |-> address, balance |-> balance]
    /\ UNCHANGED <<coreVars, powVars, moreVars>>

StateNext ==
    \/ \E address \in Addresses, delta \in Deltas, checked \in BOOLEAN :
          UpdateBalance(address, delta, checked)
    \/ \E address \in Addresses, balance \in Balances : SetBalance(address, balance)

InitState == ChainIdle /\ ForkIdle /\ PoolIdle /\ PowIdle /\ StateInit /\ MoreIdle

SpecState == InitState /\ [][StateNext]_vars

\* C19: update_balance leaves the balance at max(0, b + delta) for the
\* balance b it found, without wrap-around; no address is stored with
\* balance 0; the balance of an absent address reads 0.
C19_AccountArithmetic ==
    /\ stateLast.op = "update" =>
          LET sum == stateLast.before + stateLast.delta
          IN  /\ ~stateLast.panic
              /\ get_balance(balances, stateLast.address)
                     = IF sum > 0 THEN sum ELSE 0
    /\ \A a \in DOMAIN balances : balances[a] # 0
    /\ \A a \in Addresses \ DOMAIN balances : get_balance(balances, a) = 0

\* C18 as stated: add_block of a block whose previous_hash is in no known
\* chain returns "Parent block not found", add_block of a block whose height
\* is not the length of the parent chain returns "Invalid block", and both
\* leave the chains and best_chain_hash as they were.
C18_AnyUnknownParent ==
    /\ (forkLast.result # "none" /\ ~forkLast.known) =>
          forkLast.result = "Parent block not found" /\ forkLast.same
    /\ (forkLast.result # "none" /\ forkLast.known /\ ~forkLast.height_ok) =>
          forkLast.result = "Invalid block" /\ forkLast.same

\* C18: add_block of a block whose previous_hash is not the sentinel "0" and
\* is in no known chain returns "Parent block not found"; add_block of a
\* block whose parent is known and whose height is not the length of the
\* parent chain returns "Invalid block"; both leave the chains and
\* best_chain_hash as they were.
C18_RejectionUnchanged ==
    /\ (forkLast.result # "none" /\ ~forkLast.sentinel /\ ~forkLast.known) =>
          forkLast.result = "Parent block not found" /\ forkLast.same
    /\ (forkLast.result # "none" /\ forkLast.known /\ ~forkLast.height_ok) =>
          forkLast.result = "Invalid block" /\ forkLast.same

\* C18 witness: with two chains known, a block on a known parent was refused
\* for its height.
C18_Witness ==
    /\ forkLast.result = "Invalid block"
    /\ forkLast.known /\ ~forkLast.height_ok /\ forkLast.same
    /\ Cardinality(DOMAIN chains) >= 2

\* C16: a persistent chain opened at an empty path holds exactly the genesis
\* block (height 0, previous_hash of 64 zeros) and has persisted it; as long
\* as every add_block call since has succeeded, opening the path again loads
\* exactly the blocks that are in memory, in the same order.
C16_OpenRoundTrip ==
    faults = 0 =>
        /\ load_from_storage(store).ok
        /\ load_from_storage(store).blocks = blocks
        /\ (lastAdd = NoAdd /\ Len(blocks) = 1) =>
              /\ blocks[1].height = 0
              /\ blocks[1].previous_hash = ZERO64
              /\ blocks[1] = genesis_block

\* ------------------------------------------------------------------------
\* The peer protocol: the server's loop over one inbound connection
\* ------------------------------------------------------------------------
PROTOCOL_VERSION == 1

MAGIC_BYTES == <<18, 52, 86, 120>>

MAX_MESSAGE_SIZE == 1048576

\* The node id the server drew for itself.
NODE == <<110>>

NodeIds == {<<97>>}

\* A MessageType value; the fields a variant does not have keep these
\* fillers and are never read.
MessageOf(type) ==
    [type |-> type, version |-> 0, node_id |-> <<>>, chain_height |-> 0,
     start_hash |-> <<>>, count |-> 0, block |-> genesis_block,
     latest_hash |-> <<>>, height |-> 0, blocks |-> <<>>, peers |-> {}]

\* NetworkMessage::new: the envelope around a message type (the timestamp
\* and the checksum, which nothing reads, are left out).
NetworkMessage(message_type) ==
    [magic |-> MAGIC_BYTES, version |-> PROTOCOL_VERSION,
     message_type |-> message_type]

validate_magic_only(message) == message.magic = MAGIC_BYTES

\* NetworkMessage::validate.
validate(message) ==
    message.magic = MAGIC_BYTES /\ message.version <= PROTOCOL_VERSION

\* NetworkMessage::from_bytes on the body of a frame: `json` tells whether
\* serde_json decodes the bytes into a NetworkMessage.
from_bytes(frame) ==
    IF frame.length > MAX_MESSAGE_SIZE THEN [ok |-> FALSE, err |-> "InvalidMessage"]
    ELSE IF ~frame.json THEN [ok |-> FALSE, err |-> "InvalidMessage"]
    ELSE [ok |-> TRUE, err |-> ""]

\* What the first read_exact of read_message returned: "timeout" and
\* "wouldblock" are the two error kinds an expired read timeout is reported
\* with (TimedOut and WouldBlock, by platform).
ReadTimedOut(frame) == frame.io \in {"timeout", "wouldblock"}

\* read_message: the four length bytes, the size test, the body, the decoding.
read_message(frame) ==
    IF frame.io = "eof" THEN [ok |-> FALSE, err |-> "PeerDisconnected"]
    ELSE IF frame.io = "timeout" THEN [ok |-> FALSE, err |-> "Timeout"]
    ELSE IF frame.io \in {"error", "wouldblock"}
         THEN [ok |-> FALSE, err |-> "ConnectionFailed"]
    ELSE IF frame.length > MAX_MESSAGE_SIZE
         THEN [ok |-> FALSE, err |-> "InvalidMessage"]
    ELSE IF ~frame.body_read THEN [ok |-> FALSE, err |-> "ConnectionFailed"]
    ELSE from_bytes(frame)

RECURSIVE get_blocks(_, _, _, _, _, _)
\* The GetBlocks loop over chain.blocks from index i on.
get_blocks(bs, start_hash, count, i, found_start, out) ==
    IF i > Len(bs) THEN out
    ELSE LET taken == IF found_start /\ Len(out) < count
                      THEN Append(out, bs[i]) ELSE out
         IN  get_blocks(bs, start_hash, count, i + 1,
                        found_start \/ bs[i].hash = start_hash, taken)

\* handle_message: the result, the response, and the chain and the peer
\* table after it.  Each arm runs under the locks it takes.
handle_message(mt, bs, st, isPersistent, prs, peer_addr, done) ==
    LET same == [blocks |-> bs, store |-> st, peers |-> prs]
        respond(r) == same @@ [result |-> "Response", response |-> r]
    IN  CASE mt.type = "Handshake" ->
                 IF mt.version > PROTOCOL_VERSION
                 THEN same @@ [result |-> "Error", response |-> MessageOf("none")]
                 ELSE [blocks |-> bs, store |-> st,
                       peers |-> MapInsert(prs, mt.node_id,
                                    [address |-> peer_addr, node_id |-> mt.node_id,
                                     chain_height |-> mt.chain_height]),
                       result |-> "Response",
                       response |-> [MessageOf("Handshake") EXCEPT
                                        !.version = PROTOCOL_VERSION,
                                        !.node_id = NODE,
                                        !.chain_height = Len(bs) - 1]]
          [] mt.type = "GetChainInfo" ->
                 respond([MessageOf("ChainInfo") EXCEPT
                             !.latest_hash = Last(bs).hash,
                             !.height = Last(bs).height])
          [] mt.type = "GetBlocks" ->
                 respond([MessageOf("Blocks") EXCEPT
                             !.blocks = get_blocks(bs, mt.start_hash, mt.count, 1,
                                                   mt.start_hash = ZERO1, <<>>)])
          [] mt.type = "GetPeers" ->
                 respond([MessageOf("Peers") EXCEPT
                             !.peers = {prs[n] : n \in DOMAIN prs}])
          [] mt.type = "NewBlock" ->
                 IF validate_block(bs, mt.block)
                 THEN LET a == add_block(bs, st, isPersistent, mt.block, done)
                      IN  [blocks |-> a.blocks, store |-> a.store, peers |-> prs,
                           result |-> "Success", response |-> MessageOf("none")]
                 ELSE same @@ [result |-> "Success", response |-> MessageOf("none")]
          [] mt.type = "Ping" -> respond(MessageOf("Pong"))
          [] OTHER -> same @@ [result |-> "Success", response |-> MessageOf("none")]

\* One turn of the loop of handle_connection on a frame: whether the
\* message reached handle_message, what was sent, whether the loop ended.
handle_connection(frame, bs, st, isPersistent, prs, peer_addr, done) ==
    LET same == [blocks |-> bs, store |-> st, peers |-> prs]
        nothing == [sent |-> "none", response |-> MessageOf("none")]
        r == read_message(frame)
    IN  IF r.ok
        THEN IF ~validate(frame.message)
             THEN same @@ nothing @@ [dispatched |-> FALSE, ended |-> TRUE]
             ELSE LET h == handle_message(frame.message.message_type, bs, st,
                                          isPersistent, prs, peer_addr, done)
                  IN  [blocks |-> h.blocks, store |-> h.store, peers |-> h.peers,
                       dispatched |-> TRUE,
                       ended |-> \/ h.result = "Error"
                                 \/ h.result = "Response" /\ ~frame.send_ok,
                       sent |-> IF h.result = "Response" /\ frame.send_ok
                                THEN h.response.type ELSE "none",
                       response |-> IF h.result = "Response" /\ frame.send_ok
                                    THEN h.response ELSE MessageOf("none")]
        ELSE IF r.err = "Timeout"
        THEN same @@ [dispatched |-> FALSE, ended |-> ~frame.send_ok,
                      sent |-> IF frame.send_ok THEN "Ping" ELSE "none",
                      response |-> IF frame.send_ok THEN MessageOf("Ping")
                                   ELSE MessageOf("none")]
        ELSE same @@ nothing @@ [dispatched |-> FALSE, ended |-> TRUE]

\* The message types a peer can send.
NetBlocks == {b \in WireBlocks : b.hash # genesis_block.hash \/ b = genesis_block}

MessageTypes ==
    {[MessageOf("Handshake") EXCEPT !.version = v, !.node_id = n, !.chain_height = 1] :
        v \in {PROTOCOL_VERSION, PROTOCOL_VERSION + 1}, n \in NodeIds}
    \cup {MessageOf(t) : t \in {"GetChainInfo", "GetPeers", "Ping", "Pong", "GetMempool"}}
    \cup {[MessageOf("GetBlocks") EXCEPT !.start_hash = h, !.count = 1] :
        h \in {ZERO1, genesis_block.hash}}
    \cup {[MessageOf("NewBlock") EXCEPT !.block = b] : b \in NetBlocks}

\* A frame that arrives whole and decodes.
FrameOf(message) ==
    [io |-> "ok", length |-> 1, body_read |-> TRUE, json |-> TRUE,
     send_ok |-> TRUE, message |-> message]

PingFrame == FrameOf(NetworkMessage(MessageOf("Ping")))

\* The frames a peer can put on a connection, and what the socket does.
BlockFrames ==
    {FrameOf(NetworkMessage([MessageOf("NewBlock") EXCEPT !.block = b])) :
        b \in NetBlocks}

Frames ==
    {FrameOf(NetworkMessage(mt)) : mt \in MessageTypes}
    \cup {FrameOf([magic |-> m, version |-> v, message_type |-> mt]) :
            m \in {MAGIC_BYTES, <<0, 0, 0, 0>>},
            v \in {PROTOCOL_VERSION, PROTOCOL_VERSION + 1},
            mt \in {f.message.message_type : f \in BlockFrames}
                   \cup {mt \in MessageTypes : mt.type = "Handshake"}}
    \cup {[PingFrame EXCEPT !.io = io, !.send_ok = ok] :
            io \in {"eof", "timeout", "wouldblock", "error"}, ok \in BOOLEAN}
    \cup {[PingFrame EXCEPT !.length = n] :
            n \in {MAX_MESSAGE_SIZE, MAX_MESSAGE_SIZE + 1}}
    \cup {[PingFrame EXCEPT !.body_read = FALSE],
          [PingFrame EXCEPT !.json = FALSE],
          [PingFrame EXCEPT !.send_ok = FALSE]}

NetInit ==
    /\ session = [c \in Conns |-> NoSession]
    /\ peers = [n \in {} |-> <<>>]
    /\ netLast = NoNet

\* The listener accepts a connection and spawns its thread.
Accept(c) ==
    /\ ~session[c].open
    /\ session' = [session EXCEPT ![c] = [NoSession EXCEPT !.open = TRUE]]
    /\ UNCHANGED <<peers, netLast, chainVars, forkVars, poolVars, powVars,
                   stateVars, ledgerVars, serverVars>>

\* The thread of connection c reads one frame and handles it.
Receive(c, frame, done) ==
    /\ session[c].open
    /\ WriteFails(done) => validate_block(blocks, frame.message.message_type.block)
    /\ LET r == handle_connection(frame, blocks, store, persistent, peers, c, done)
           mt == frame.message.message_type
       IN  /\ blocks' = r.blocks
           /\ store' = r.store
           /\ peers' = r.peers
           /\ faults' = IF WriteFails(done) THEN faults + 1 ELSE faults
           /\ session' = [session EXCEPT ![c] =
                  IF r.ended THEN NoSession
                  ELSE [session[c] EXCEPT
                           !.handshaken = \/ session[c].handshaken
                                          \/ r.dispatched /\ mt.type = "Handshake"]]
           /\ netLast' = [op |-> "frame",
                          read |-> frame.io = "ok",
                          oversize |-> frame.length > MAX_MESSAGE_SIZE,
                          decoded |-> frame.io = "ok" /\ frame.body_read /\ frame.json
                                      /\ frame.length <= MAX_MESSAGE_SIZE,
                          magic_ok |-> frame.message.magic = MAGIC_BYTES,
                          version_ok |-> frame.message.version <= PROTOCOL_VERSION,
                          type |-> mt.type,
                          handshaken |-> session[c].handshaken,
                          dispatched |-> r.dispatched,
                          ended |-> r.ended,
                          sent |-> r.sent,
                          same |-> r.blocks = blocks /\ r.store = store
                                   /\ r.peers = peers,
                          linked |-> /\ mt.block.previous_hash = Last(blocks).hash
                                     /\ mt.block.height = Len(blocks)]
    /\ UNCHANGED <<persistent, chainLock, pc, msg, syncLeft, lastAdd, forkVars,
                   poolVars, powVars, stateVars, ledgerVars, serverVars>>

NetNext ==
    \/ \E c \in Conns : Accept(c)
    \/ \E c \in Conns, done \in {d \in StoreOutcomes : FaultAllowed(d)} :
          \E frame \in IF WriteFails(done) THEN BlockFrames ELSE Frames :
              Receive(c, frame, done)

InitNet ==
    /\ ChainInit /\ ForkIdle /\ PoolIdle /\ PowIdle /\ StateIdle /\ NetInit /\ LedgerIdle
    /\ ServerIdle

SpecNet == InitNet /\ [][NetNext]_vars

\* C17: a frame that declares more than MAX_MESSAGE_SIZE bytes, or whose
\* envelope carries a wrong magic or a version above PROTOCOL_VERSION, never
\* reaches handle_message; the loop of its connection ends, and the chain,
\* the store and the peer table are what they were.
C17_EnvelopeRejection ==
    (/\ netLast.op = "frame"
     /\ netLast.read
     /\ \/ netLast.oversize
        \/ netLast.decoded /\ (~netLast.magic_ok \/ ~netLast.version_ok))
    => (~netLast.dispatched /\ netLast.ended /\ netLast.same)

\* A NewBlock in an envelope of a later version arrived on a connection that
\* had completed its handshake, so the peer table was not empty.
C17_Witness ==
    /\ netLast.op = "frame"
    /\ netLast.decoded
    /\ netLast.magic_ok
    /\ ~netLast.version_ok
    /\ netLast.type = "NewBlock"
    /\ netLast.handshaken
    /\ netLast.ended
    /\ DOMAIN peers # {}

\* C20: on a connection that has not yet received a valid Handshake, a
\* GetChainInfo, GetBlocks, GetPeers or NewBlock message is neither answered
\* nor acted on; a NewBlock that comes first leaves the chain as it was.
C20_HandshakeFirst ==
    (/\ netLast.op = "frame"
     /\ netLast.dispatched
     /\ ~netLast.handshaken
     /\ netLast.type \in {"GetChainInfo", "GetBlocks", "GetPeers", "NewBlock"})
    => (netLast.sent = "none" /\ netLast.same)

\* ------------------------------------------------------------------------
\* The chain with its transactions: what the CLI and the peers put on it
\* ------------------------------------------------------------------------
\* The sender of coinbase transactions, forty '0' characters.
NULL_ADDRESS == Repeat(CHAR_0, 40)

\* "genesis"
GENESIS == <<103, 101, 110, 101, 115, 105, 115>>

\* format!("{:?}", tx): the four fields, separated.
debug_transaction(tx) ==
    tx.from \o <<44>> \o tx.to \o <<44>> \o Decimal(tx.amount) \o <<44>> \o tx.signature

RECURSIVE debug_transactions(_)
debug_transactions(txs) ==
    IF txs = <<>> THEN <<>>
    ELSE debug_transaction(Head(txs)) \o <<59>> \o debug_transactions(Tail(txs))

RECURSIVE merkle_level(_, _)
\* One pass of the while loop of calculate_merkle_root: the nodes from
\* index i on are hashed in pairs, the last one with itself when alone.
merkle_level(hashes, i) ==
    IF i > Len(hashes) THEN <<>>
    ELSE LET left == hashes[i]
             right == IF i + 1 <= Len(hashes) THEN hashes[i + 1] ELSE left
         IN  <<sha256_hash(left \o right)>> \o merkle_level(hashes, i + 2)

RECURSIVE merkle_reduce(_)
merkle_reduce(hashes) ==
    IF Len(hashes) > 1 THEN merkle_reduce(merkle_level(hashes, 1)) ELSE hashes[1]

calculate_merkle_root(txs) ==
    IF txs = <<>> THEN sha256_hash(<<>>)
    ELSE merkle_reduce([i \in 1..Len(txs) |-> sha256_hash(debug_transaction(txs[i]))])

\* Block::calculate_hash: sha256 over the header with an empty hash field
\* and the transactions.
calculate_hash(previous_hash, timestamp, nonce, merkle_root, height, txs) ==
    sha256_hash(previous_hash \o <<timestamp, nonce>> \o merkle_root \o <<height>>
                \o debug_transactions(txs))

\* Block::new
Block_new(previous_hash, txs, nonce, timestamp, height) ==
    LET merkle_root == calculate_merkle_root(txs)
    IN  [previous_hash |-> previous_hash,
         timestamp     |-> timestamp,
         nonce         |-> nonce,
         merkle_root   |-> merkle_root,
         hash          |-> calculate_hash(previous_hash, timestamp, nonce,
                                          merkle_root, height, txs),
         height        |-> height,
         transactions  |-> txs]

\* create_coinbase_transaction
create_coinbase_transaction(to, amount, message) ==
    Transaction(NULL_ADDRESS, to, amount, message)

\* genesis_block_with_config for a configuration with one allocation, of
\* MaxBalance units to ALI, and a one-letter message.
genesis_block_with_config ==
    Block_new(ZERO64,
              <<create_coinbase_transaction(ALI, MaxBalance, <<>>),
                create_coinbase_transaction(NULL_ADDRESS, 0, <<82>>)>>,
              0, GENESIS_TIMESTAMP, 0)

\* The body of the inner loop of get_current_utxo_state.
replay_transaction(tx, state) ==
    LET debited == IF tx.from # <<>> /\ tx.from # GENESIS
                   THEN update_balance(state, tx.from,
                                       WrapSigned(0 - ToSigned(tx.amount)))
                   ELSE state
    IN  update_balance(debited, tx.to, ToSigned(tx.amount))

RECURSIVE replay_block(_, _, _)
\* The inner loop from transaction j on; the index and the state step
\* together.
replay_block(txs, j, state) ==
    IF j > Len(txs) THEN state
    ELSE LET next == <<j + 1, replay_transaction(txs[j], state)>>
         IN  replay_block(txs, next[1], next[2])

RECURSIVE replay_chain(_, _, _)
\* The outer loop from block i on.
replay_chain(bs, i, state) ==
    IF i > Len(bs) THEN state
    ELSE LET next == <<i + 1, replay_block(bs[i].transactions, 1, state)>>
         IN  replay_chain(bs, next[1], next[2])

\* CLI::get_current_utxo_state
get_current_utxo_state(bs) == replay_chain(bs, 1, NoState)

\* The transactions a caller hands to the CLI or a peer puts in a block.
LedgerTransactions ==
    {Transaction(ALI, BOB, 1, NoSignature), Transaction(ALI, BOB, 2, NoSignature)}

TransactionLists ==
    {<<>>} \cup {<<tx>> : tx \in LedgerTransactions}
           \cup {<<a, b>> : a \in LedgerTransactions, b \in LedgerTransactions}

\* A merkle_root no list of transactions hashes to.
OtherRoot == <<120>>

\* A block as a peer writes it: the hash is the hash of what the header says.
PeerBlockOf(previous_hash, height, txs, merkle_root) ==
    [previous_hash |-> previous_hash,
     timestamp     |-> 1,
     nonce         |-> 0,
     merkle_root   |-> merkle_root,
     hash          |-> calculate_hash(previous_hash, 1, 0, merkle_root, height, txs),
     height        |-> height,
     transactions  |-> txs]

\* The blocks a peer can send towards the chain bs: linked to its tip or
\* not, at its height or not, the merkle_root computed from the
\* transactions or not.
PeerBlocksOn(bs) ==
    {PeerBlockOf(link[1], link[2], txs,
                 IF committed THEN calculate_merkle_root(txs) ELSE OtherRoot) :
        link \in {<<Last(bs).hash, Len(bs)>>, <<ZERO64, Len(bs)>>,
                  <<Last(bs).hash, 0>>},
        txs \in {t \in TransactionLists : Len(t) <= 1},
        committed \in BOOLEAN}

\* The answers a peer can give to GetBlocks: one block, or two of which the
\* second builds on the first.
SyncBatches(bs) ==
    {<<b>> : b \in PeerBlocksOn(bs)}
    \cup UNION {{<<b, c>> : c \in {x \in PeerBlocksOn(Append(bs, b)) :
                                        x.transactions = <<>>}} :
                    b \in PeerBlocksOn(bs)}

RECURSIVE process_sync_blocks(_, _, _)
\* The loop of process_sync_blocks.
process_sync_blocks(bs, batch, i) ==
    IF i > Len(batch) THEN bs
    ELSE process_sync_blocks(IF validate_block(bs, batch[i])
                             THEN Append(bs, batch[i]) ELSE bs,
                             batch, i + 1)

\* The CLI starts with Chain::new(): the genesis block, and a new mempool.
LedgerInit ==
    /\ ledger = <<genesis_block_with_config>>
    /\ ledgerOwner = "cli"

\* Chain::add_block on the chain of the CLI (what the commands then write
\* to the block store and the fork choice does not come back into
\* Chain.blocks and is modelled with the chain and the fork choice).
LedgerAppend(block) ==
    ledger' = IF validate_block(ledger, block) THEN Append(ledger, block) ELSE ledger

\* MiningCommands::mine_block with the transactions the caller passes; the
\* miner returns Block::new with the nonce it found.
CliMineBlock(txs, nonce, timestamp) ==
    /\ ledgerOwner = "cli"
    /\ Len(ledger) < MaxLedger
    /\ LedgerAppend(Block_new(Last(ledger).hash, txs, nonce, timestamp, Len(ledger)))
    /\ UNCHANGED <<ledgerOwner, coreVars, powVars, stateVars, netVars, serverVars>>

\* CLI::add_block
CliAddBlock(txs, timestamp) ==
    /\ ledgerOwner = "cli"
    /\ Len(ledger) < MaxLedger
    /\ LedgerAppend(Block_new(Last(ledger).hash, txs, 0, timestamp, Len(ledger)))
    /\ UNCHANGED <<ledgerOwner, coreVars, powVars, stateVars, netVars, serverVars>>

\* MempoolCommands::add_transaction_to_mempool
AddTransactionToMempool(tx, created, current_time) ==
    /\ ledgerOwner = "cli"
    /\ Cardinality(seen_transactions) < MaxSeen
    /\ SetPool(add_transaction(Pool, tx, get_current_utxo_state(ledger),
                               created, current_time).pool)
    /\ UNCHANGED <<file, lastOp, chainVars, forkVars, powVars, stateVars, netVars,
                   ledgerVars, serverVars>>

\* remove_transactions over the mined list.
RECURSIVE remove_transactions(_, _)
remove_transactions(txs, mined) ==
    IF mined = <<>> THEN txs
    ELSE remove_transactions(remove_transaction(txs, Head(mined)), Tail(mined))

\* MempoolCommands::mine_block_from_mempool
MineBlockFromMempool(nonce, timestamp) ==
    /\ ledgerOwner = "cli"
    /\ Len(ledger) < MaxLedger
    /\ LET selected == get_transactions_for_block(transactions, 10,
                                                  get_current_utxo_state(ledger))
           block == Block_new(Last(ledger).hash, selected, nonce, timestamp,
                              Len(ledger))
       IN  IF selected = <<>>
           THEN UNCHANGED <<ledger, transactions>>
           ELSE /\ LedgerAppend(block)
                /\ transactions' = IF validate_block(ledger, block)
                                   THEN remove_transactions(transactions, selected)
                                   ELSE transactions
    /\ UNCHANGED <<seen_transactions, max_size, max_age_seconds, file, lastOp,
                   ledgerOwner, chainVars, forkVars, powVars, stateVars, netVars, serverVars>>

\* start-network: NetworkServer::new(self.chain.clone(), ..); from here on
\* the chain is the server's, which the CLI commands do not reach.
StartNetwork ==
    /\ ledgerOwner = "cli"
    /\ ledgerOwner' = "server"
    /\ UNCHANGED <<ledger, coreVars, powVars, stateVars, netVars, serverVars>>

\* handle_message for NewBlock(block): validate_block, then Chain::add_block.
PeerNewBlock(block) ==
    /\ ledgerOwner = "server"
    /\ Len(ledger) < MaxLedger
    /\ ledger' = IF validate_block(ledger, block)
                 THEN (IF validate_block(ledger, block)
                       THEN Append(ledger, block) ELSE ledger)
                 ELSE ledger
    /\ UNCHANGED <<ledgerOwner, coreVars, powVars, stateVars, netVars, serverVars>>

\* sync_blockchain: the Blocks answer goes through process_sync_blocks.
SyncBlockchain(batch) ==
    /\ ledgerOwner = "server"
    /\ Len(ledger) + Len(batch) <= MaxLedger
    /\ ledger' = process_sync_blocks(ledger, batch, 1)
    /\ UNCHANGED <<ledgerOwner, coreVars, powVars, stateVars, netVars, serverVars>>

\* The readings of the clock while the chain is built: it stands still.
LedgerClock == {1}

LedgerNext ==
    \/ \E txs \in TransactionLists, nonce \in Nonces, timestamp \in LedgerClock :
          CliMineBlock(txs, nonce, timestamp)
    \/ \E txs \in TransactionLists, timestamp \in LedgerClock :
          CliAddBlock(txs, timestamp)
    \/ \E tx \in LedgerTransactions, now \in LedgerClock :
          AddTransactionToMempool(tx, now, now)
    \/ \E nonce \in Nonces, timestamp \in LedgerClock :
          MineBlockFromMempool(nonce, timestamp)
    \/ StartNetwork
    \/ \E block \in PeerBlocksOn(ledger) : PeerNewBlock(block)
    \/ \E batch \in SyncBatches(ledger) : SyncBlockchain(batch)

InitLedger ==
    /\ ChainIdle /\ ForkIdle /\ PoolIdle /\ PowIdle /\ StateIdle /\ NetIdle /\ LedgerInit
    /\ ServerIdle

SpecLedger == InitLedger /\ [][LedgerNext]_vars

\* A coinbase transaction: its sender is the reserved address (or one of
\* the two senders the replay does not debit).
IsCoinbase(tx) == tx.from \in {NULL_ADDRESS, <<>>, GENESIS}

\* The balances the replay holds just before transaction j of block i.
BalancesBefore(bs, i, j) ==
    replay_block(SubSeq(bs[i].transactions, 1, j - 1), 1,
                 get_current_utxo_state(SubSeq(bs, 1, i - 1)))

\* C14: on every chain the node reaches, each transaction that is not a
\* coinbase finds, when the replay comes to it, a balance of its sender of
\* at least its amount.
C14_NoOverdraft ==
    \A i \in 1..Len(ledger) : \A j \in 1..Len(ledger[i].transactions) :
        LET tx == ledger[i].transactions[j]
        IN  ~IsCoinbase(tx) =>
                get_balance(BalancesBefore(ledger, i, j), tx.from) >= tx.amount

\* C15: for every block on the chain, the Merkle root computed from its
\* transactions is the merkle_root of its header.
C15_MerkleCommitment ==
    \A i \in 1..Len(ledger) :
        calculate_merkle_root(ledger[i].transactions) = ledger[i].merkle_root

\* ------------------------------------------------------------------------
\* The validator on its own
\* ------------------------------------------------------------------------
\* The snapshots a caller of the validator can pass: nobody holds anything,
\* or every address holds the same amount.
ValidatorStates == Snapshots \cup {NoState}

\* TransactionValidator::new()
NewValidator ==
    /\ seen_transactions' = {}
    /\ lastOp' = [NoOp EXCEPT !.op = "new"]
    /\ UNCHANGED <<transactions, max_size, max_age_seconds, file,
                   chainVars, forkVars, extVars>>

\* validator.validate_transaction(&tx, &state)
ValidateTransaction(tx, state) ==
    /\ LET v == validate_transaction(seen_transactions, tx, state)
       IN  /\ seen_transactions' = v.seen
           /\ lastOp' = [NoOp EXCEPT
                            !.op = "validate", !.tx = tx, !.state = state,
                            !.result = v.result,
                            !.seenSame = (v.seen = seen_transactions),
                            !.unseen = (tx_hash(tx) \notin seen_transactions)]
    /\ UNCHANGED <<transactions, max_size, max_age_seconds, file,
                   chainVars, forkVars, extVars>>

ValidatorNext ==
    \/ NewValidator
    \/ \E tx \in Transactions, state \in ValidatorStates : ValidateTransaction(tx, state)

InitValidator == ChainIdle /\ ForkIdle /\ PoolIdle /\ ExtIdle

SpecValidator == InitValidator /\ [][ValidatorNext]_vars

\* The verdict in the order of the statement: addresses, amount, self
\* transfer, signature length, funds, and the seen-set last.
StatedVerdict(tx, state, seen_before) ==
    IF tx.from = <<>> \/ tx.to = <<>> THEN "InvalidAddress"
    ELSE IF tx.amount = 0 THEN "EmptyTransaction"
    ELSE IF tx.from = tx.to THEN "SelfTransfer"
    ELSE IF tx.signature # <<>> /\ Len(tx.signature) # 64 THEN "InvalidSignature"
    ELSE IF get_balance(state, tx.from) < tx.amount THEN "InsufficientFunds"
    ELSE IF seen_before THEN "DuplicateTransaction"
    ELSE "Ok"

\* The verdict with the seen-set consulted right after the three basic
\* rules, and an empty signature passing only between addresses of at
\* least 3 characters.
OrderedVerdict(tx, state, seen_before) ==
    IF tx.from = <<>> \/ tx.to = <<>> THEN "InvalidAddress"
    ELSE IF tx.amount = 0 THEN "EmptyTransaction"
    ELSE IF tx.from = tx.to THEN "SelfTransfer"
    ELSE IF seen_before THEN "DuplicateTransaction"
    ELSE IF tx.signature = <<>> /\ (Len(tx.from) < 3 \/ Len(tx.to) < 3)
         THEN "InvalidSignature"
    ELSE IF tx.signature # <<>> /\ Len(tx.signature) # 64 THEN "InvalidSignature"
    ELSE IF get_balance(state, tx.from) < tx.amount THEN "InsufficientFunds"
    ELSE "Ok"

\* What every call leaves in the seen-set: the hash after Ok, nothing new
\* after an error.
SeenSetKept ==
    IF lastOp.result = "Ok"
    THEN tx_hash(lastOp.tx) \in seen_transactions
    ELSE lastOp.seenSame

GetTransactionsForBlock(max_transactions, state) ==
    /\ lastOp' = [NoOp EXCEPT
                     !.op = "select", !.state = state,
                     !.limit = max_transactions,
                     !.selected = get_transactions_for_block(
                                      transactions, max_transactions, state)]
    /\ UNCHANGED <<transactions, seen_transactions, max_size, max_age_seconds,
                   file, chainVars, forkVars, extVars>>

SelectNext ==
    \/ \E tx \in Transactions, state \in Snapshots, created \in Times,
          current_time \in Times :
          AddTransaction(tx, state, created, current_time)
    \/ \E k \in 0..MaxSize, state \in ValidatorStates :
          GetTransactionsForBlock(k, state)

SpecSelect == InitPool /\ [][SelectNext]_vars

\* A transfer in plain arithmetic on a snapshot whose sender can afford it.
Transfer(state, tx) ==
    [a \in DOMAIN state \cup {tx.from, tx.to} |->
        (get_balance(state, a) - IF a = tx.from THEN tx.amount ELSE 0)
            + IF a = tx.to THEN tx.amount ELSE 0]

RECURSIVE TransferAll(_, _)
TransferAll(txs, state) ==
    IF txs = <<>> THEN state
    ELSE TransferAll(Tail(txs), Transfer(state, Head(txs)))

\* The pending transactions in queue order, and those of the first n that
\* the last selection took.
Pending == [i \in 1..Len(transactions) |-> transactions[i].transaction]

RECURSIVE TakenBefore(_)
TakenBefore(n) ==
    IF n = 0 THEN <<>>
    ELSE IF Pending[n] \in Range(lastOp.selected)
         THEN Append(TakenBefore(n - 1), Pending[n])
         ELSE TakenBefore(n - 1)

\* C28: the list returned by get_transactions_for_block(k, s) has at most k
\* entries, keeps the queue order, and applied in order to a copy of s
\* every entry finds its sender holding at least its amount; a pending
\* transaction is left out only when k are taken before it or its sender
\* cannot afford it at its turn, and the scan goes on after it.
C28_CumulativeSelection ==
    lastOp.op = "select" =>
        /\ Len(lastOp.selected) <= lastOp.limit
        /\ lastOp.selected = TakenBefore(Len(transactions))
        /\ \A j \in 1..Len(lastOp.selected) :
               get_balance(TransferAll(SubSeq(lastOp.selected, 1, j - 1), lastOp.state),
                           lastOp.selected[j].from) >= lastOp.selected[j].amount
        /\ \A i \in 1..Len(transactions) :
               Pending[i] \notin Range(lastOp.selected) =>
                   \/ Len(TakenBefore(i - 1)) >= lastOp.limit
                   \/ get_balance(TransferAll(TakenBefore(i - 1), lastOp.state),
                                  Pending[i].from) < Pending[i].amount

\* A selection below its limit left out a transaction its sender could not
\* afford at its turn and took one that comes later in the queue.
C28_Witness ==
    /\ lastOp.op = "select"
    /\ Len(lastOp.selected) < lastOp.limit
    /\ \E i, j \in 1..Len(transactions) :
           /\ i < j
           /\ Pending[i] \notin Range(lastOp.selected)
           /\ Pending[j] \in Range(lastOp.selected)

\* ------------------------------------------------------------------------
\* The replay, one transaction at a time
\* ------------------------------------------------------------------------
\* The transactions the blocks of a chain can hold, in any order: coinbases
\* to an address and to the null address itself, and transfers to the null
\* address and between addresses.
ReplayTransactions ==
    {create_coinbase_transaction(to, amount, <<>>) :
        to \in {ALI, BOB, NULL_ADDRESS}, amount \in 1..MaxBalance}
    \cup {Transaction(ALI, to, 1, NoSignature) : to \in {BOB, NULL_ADDRESS}}

\* One pass of the inner loop of get_current_utxo_state, which starts from
\* UTXOState::new(); the sum of the balances stays within i64.
ReplayTransaction(tx) ==
    /\ \A a \in DOMAIN balances : balances[a] + tx.amount < WordMod \div 2
    /\ balances' = replay_transaction(tx, balances)
    /\ stateLast' = [op |-> "replay", tx |-> tx, before |-> balances]
    /\ UNCHANGED <<coreVars, powVars, moreVars>>

ReplayNext == \E tx \in ReplayTransactions : ReplayTransaction(tx)

SpecReplay == InitState /\ [][ReplayNext]_vars

\* C26: in the replay, a transaction whose sender is the null address of 40
\* zeros lowers the balance of no address, the null address included.
C26_CoinbaseOnlyCredits ==
    (stateLast.op = "replay" /\ stateLast.tx.from = NULL_ADDRESS) =>
        \A a \in DOMAIN stateLast.before :
            get_balance(balances, a) >= stateLast.before[a]

\* ------------------------------------------------------------------------
\* Persistence of a block
\* ------------------------------------------------------------------------

\* C30: persisting a block is all or nothing: an add_block call during which
\* a write to the store fails returns false and leaves the chain in memory
\* and every key of the store as they were, and the latest height of the
\* store never exceeds the height of the tip in memory.
C30_AllOrNothing ==
    /\ lastAdd.failed => ~lastAdd.ret /\ lastAdd.same
    /\ \A h \in store.latest : h < Len(blocks)

\* C29: on a persistent chain every block that synchronisation appends is
\* appended through Chain::add_block: at the step that pushes it the store
\* receives the block under its hash and a latest height equal to the height
\* of the new tip.
C29_SyncThroughAddBlock ==
    [][(persistent /\ chainLock = SyncThread /\ Len(blocks') = Len(blocks) + 1)
          => /\ store'.latest = {Len(blocks') - 1}
             /\ <<blocks'[Len(blocks')].hash, blocks'[Len(blocks')]>>
                    \in store'.block]_vars

\* ------------------------------------------------------------------------
\* The server's sessions
\* ------------------------------------------------------------------------

\* The thread of connection c takes one turn of its loop, with every write
\* to the store succeeding.  The session record keeps what the code does
\* not: whether the read before this one timed out, and the node ids the
\* Handshakes of the session put into the peer table.
Serve(c, frame) ==
    /\ session[c].open
    /\ LET r == handle_connection(frame, blocks, store, persistent, peers, c,
                                  CHOOSE d \in StoreOutcomes : ~WriteFails(d))
           mt == frame.message.message_type
           registers == /\ r.dispatched
                        /\ mt.type = "Handshake"
                        /\ mt.version <= PROTOCOL_VERSION
       IN  /\ blocks' = r.blocks
           /\ store' = r.store
           /\ peers' = r.peers
           /\ session' = [session EXCEPT ![c] =
                  IF r.ended THEN NoSession
                  ELSE [open |-> TRUE,
                        handshaken |-> session[c].handshaken \/ registers,
                        idle |-> ReadTimedOut(frame),
                        registered |-> IF registers
                                       THEN session[c].registered \cup {mt.node_id}
                                       ELSE session[c].registered]]
           /\ netLast' = [op |-> "serve",
                          type |-> mt.type,
                          dispatched |-> r.dispatched,
                          ended |-> r.ended,
                          sent |-> r.sent,
                          timed_out |-> ReadTimedOut(frame),
                          idle |-> session[c].idle,
                          send_ok |-> frame.send_ok,
                          start_hash |-> mt.start_hash,
                          count |-> mt.count,
                          reply |-> r.response.blocks]
    /\ UNCHANGED <<persistent, chainLock, pc, msg, syncLeft, faults, lastAdd,
                   forkVars, poolVars, powVars, stateVars, ledgerVars, serverVars>>

\* What a peer that handshakes and then goes silent or away puts on a
\* connection.
SessionFrames ==
    {FrameOf(NetworkMessage(mt)) : mt \in {m \in MessageTypes : m.type = "Handshake"}}
    \cup {[PingFrame EXCEPT !.io = io, !.send_ok = ok] :
            io \in {"ok", "eof", "timeout", "wouldblock"}, ok \in BOOLEAN}

SessionNext ==
    \/ \E c \in Conns : Accept(c)
    \/ \E c \in Conns, frame \in SessionFrames : Serve(c, frame)

SpecSession == InitNet /\ [][SessionNext]_vars

\* The requests for blocks, and the blocks a peer announces.
GetBlocksFrames ==
    {FrameOf(NetworkMessage([MessageOf("GetBlocks") EXCEPT
                                !.start_hash = h, !.count = n])) :
        h \in {ZERO1, ZERO64} \cup PeerHashes, n \in 1..MaxCount}

BlocksNext ==
    \/ \E c \in Conns : Accept(c)
    \/ \E c \in Conns, frame \in GetBlocksFrames \cup BlockFrames : Serve(c, frame)

SpecBlocks == InitNet /\ [][BlocksNext]_vars

\* C21: the Blocks response to GetBlocks{start_hash, count} holds the first
\* min(count, remaining) blocks of the chain strictly after the block whose
\* hash is start_hash, in chain order; when start_hash is the sentinel of 64
\* zeros it starts at the genesis block.
C21_GetBlocksResponse ==
    (/\ netLast.op = "serve"
     /\ netLast.type = "GetBlocks"
     /\ netLast.sent = "Blocks")
    => LET matches == {i \in 1..Len(blocks) : blocks[i].hash = netLast.start_hash}
           after == IF netLast.start_hash = ZERO64 THEN 0
                    ELSE CHOOSE i \in matches : \A j \in matches : i <= j
       IN  (netLast.start_hash = ZERO64 \/ matches # {}) =>
               netLast.reply = SubSeq(blocks, after + 1,
                                      after + Min(netLast.count, Len(blocks) - after))

\* C24: the peer table holds no record left by a session that has ended:
\* every node id in it was registered by the Handshake of a session that is
\* still open.
C24_PeerRemovedOnDisconnect ==
    \A n \in DOMAIN peers :
        \E c \in Conns : session[c].open /\ n \in session[c].registered

\* C25: on a read timeout the worker sends a Ping and goes on reading; a
\* second timeout in a row, with nothing read in between, closes the
\* session.
C25_IdleSessionClosed ==
    (netLast.op = "serve" /\ netLast.timed_out)
    => IF netLast.idle
       THEN netLast.ended
       ELSE netLast.send_ok => netLast.sent = "Ping" /\ ~netLast.ended

\* C23: a NewBlock whose block does not link to the tip (previous_hash and
\* height) leaves the chain in memory and the store as they were, is not
\* answered and does not end the session: the connection stays open for the
\* messages that follow.
C23_InvalidBlockDropped ==
    (/\ netLast.op = "frame"
     /\ netLast.dispatched
     /\ netLast.type = "NewBlock"
     /\ ~netLast.linked)
    => /\ netLast.same
       /\ netLast.sent = "none"
       /\ ~netLast.ended
       /\ \E c \in Conns : session[c].open

\* An unlinked NewBlock was dropped by a node whose chain had grown and
\* whose peer table was not empty.
C23_Witness ==
    /\ netLast.op = "frame"
    /\ netLast.dispatched
    /\ netLast.type = "NewBlock"
    /\ ~netLast.linked
    /\ netLast.same /\ ~netLast.ended
    /\ Len(blocks) >= 2
    /\ DOMAIN peers # {}

\* ------------------------------------------------------------------------
\* Synchronisation with the best peer
\* ------------------------------------------------------------------------
\* The count of the GetBlocks request of request_blocks_from_peer.
SYNC_COUNT == 100

\* The peers that handshake with the node before it synchronises, and the
\* tip heights they report.
SyncNodeIds == {<<97>>, <<98>>}

SyncFrames ==
    {FrameOf(NetworkMessage([MessageOf("Handshake") EXCEPT
                                !.version = PROTOCOL_VERSION,
                                !.node_id = n, !.chain_height = h])) :
        n \in SyncNodeIds, h \in 0..(MaxChain - 1)}

RECURSIVE Extended(_, _)
\* The chain bs with n more blocks mined on it.
Extended(bs, n) ==
    IF n <= 0 THEN bs
    ELSE Extended(Append(bs, BlockNew(Last(bs).hash, 0, 1, Len(bs))), n - 1)

\* request_blocks_from_peer against a peer whose server holds the chain
\* remote: GetBlocks from our tip hash, the peer's handle_message answers,
\* process_sync_blocks takes the answer.
request_blocks_from_peer(bs, remote) ==
    LET get_blocks_message ==
            [MessageOf("GetBlocks") EXCEPT !.start_hash = Last(bs).hash,
                                           !.count = SYNC_COUNT]
        answer == handle_message(get_blocks_message, remote, EmptyStore, FALSE,
                                 EmptyMap, 0, 0).response
    IN  process_sync_blocks(bs, answer.blocks, 1)

\* sync_blockchain with best_peer the record max_by_key picked; connected
\* tells whether TcpStream::connect to it and the exchange succeed.
sync_blockchain(bs, prs, best_peer, remote, connected) ==
    IF DOMAIN prs = {} THEN [blocks |-> bs, ret |-> "Err"]
    ELSE LET our_height == Len(bs)
         IN  IF best_peer.chain_height > our_height
             THEN IF connected
                  THEN [blocks |-> request_blocks_from_peer(bs, remote), ret |-> "Ok"]
                  ELSE [blocks |-> bs, ret |-> "Err"]
             ELSE [blocks |-> bs, ret |-> "Ok"]

\* The records max_by_key can return: those of the greatest chain_height.
BestPeers(prs) ==
    {prs[n] : n \in {m \in DOMAIN prs :
                        \A k \in DOMAIN prs : prs[k].chain_height <= prs[m].chain_height}}

\* The node calls sync_blockchain.  The best peer reported its tip height
\* in its Handshake and holds the node's chain with the blocks up to that
\* height mined on it.
SyncFromBestPeer(connected) ==
    /\ CanLock(chainLock)
    /\ DOMAIN peers # {}
    /\ \E best_peer \in BestPeers(peers) :
          LET ahead == best_peer.chain_height - (Len(blocks) - 1)
              remote == Extended(blocks, ahead)
              r == sync_blockchain(blocks, peers, best_peer, remote, connected)
          IN  /\ blocks' = r.blocks
              /\ netLast' = [op |-> "sync", ahead |-> ahead, remote |-> remote,
                             ret |-> r.ret]
    /\ UNCHANGED <<persistent, store, chainLock, pc, msg, syncLeft, faults, lastAdd,
                   session, peers, forkVars, poolVars, powVars, stateVars,
                   ledgerVars, serverVars>>

SyncNext ==
    \/ \E c \in Conns : Accept(c)
    \/ \E c \in Conns, frame \in SyncFrames : Serve(c, frame)
    \/ \E connected \in BOOLEAN : SyncFromBestPeer(connected)

SpecSync == InitNet /\ [][SyncNext]_vars

\* C22: when the peer with the greatest recorded chain_height holds the
\* local chain with n more valid blocks on it, 1 <= n <= 100, and
\* sync_blockchain returns Ok, the local chain is the peer's chain.
C22_SyncCatchesUp ==
    (/\ netLast.op = "sync"
     /\ netLast.ahead \in 1..SYNC_COUNT
     /\ netLast.ret = "Ok")
    => blocks = netLast.remote

\* ------------------------------------------------------------------------
\* The fork choice given any header
\* ------------------------------------------------------------------------
\* ForkChoice::add_block reads block.header.hash as the caller wrote it.
\* The headers handed in here are the ones Block::new builds on a sentinel
\* or on a known block, and the same headers with the hash field set to
\* their own previous_hash or to the key of a chain of the index.
WithHash(block, hash) == [block EXCEPT !.hash = hash]

HeaderParents == {ZERO1, ZERO64} \cup KnownHashes

HeaderHeights == 0..(MaxHeaders - 1)

HeaderHashes(block) == {block.hash, block.previous_hash} \cup DOMAIN chains

Computed(block) ==
    block.hash = BlockHash(block.previous_hash, block.timestamp, block.nonce, block.height)

\* find_chain_with_tip's second branch: some chain holds the block.
Contained(cs, block) ==
    \E k \in DOMAIN cs : \E i \in 1..Len(cs[k]) : cs[k][i] = block

NoHeader == [result |-> "none", zero64 |-> FALSE, contained |-> FALSE,
             same |-> TRUE, forks |-> FALSE, block |-> genesis_block]

\* ForkChoice::new(), or ForkChoice::with_genesis_chain(Chain::new()).
HeaderInit ==
    /\ emitted = <<>>
    /\ forkLast = NoHeader
    /\ reorg_history = <<>>
    /\ max_reorg_depth = 0
    /\ tracking = FALSE
    /\ \/ /\ chains = ForkNew.chains
          /\ best_chain_hash = ForkNew.best
          /\ added = <<>>
       \/ /\ chains = with_genesis_chain(<<genesis_block>>).chains
          /\ best_chain_hash = with_genesis_chain(<<genesis_block>>).best
          /\ added = <<genesis_block>>

\* ForkChoice::add_block(block)
ForkAddHeader(block) ==
    /\ Len(added) < MaxHeaders
    /\ \E r \in fork_add_block(chains, best_chain_hash, block) :
          /\ chains' = r.chains
          /\ best_chain_hash' = r.best
          /\ added' = IF r.result = "Ok" THEN Append(added, block) ELSE added
          /\ forkLast' = [result    |-> r.result,
                          zero64    |-> block.previous_hash = ZERO64,
                          contained |-> Contained(chains, block),
                          same      |-> r.chains = chains /\ r.best = best_chain_hash,
                          forks     |-> has_forks,
                          block     |-> block]
    /\ UNCHANGED <<tracking, max_reorg_depth, reorg_history, emitted,
                   chainVars, poolVars, extVars>>

HeaderNext ==
    \E previous_hash \in HeaderParents, timestamp \in Timestamps, height \in HeaderHeights :
        \E hash \in HeaderHashes(BlockNew(previous_hash, 0, timestamp, height)) :
            ForkAddHeader(WithHash(BlockNew(previous_hash, 0, timestamp, height), hash))

InitHeader == ChainIdle /\ HeaderInit /\ PoolIdle /\ ExtIdle

SpecHeader == InitHeader /\ [][HeaderNext]_vars

\* Every block the fork choice has taken in carries the hash of its header.
AllComputed == \A i \in 1..Len(added) : Computed(added[i])

\* C32: add_block of a block whose previous_hash is the genesis sentinel
\* of 64 zeros returns Ok and leaves the one-block chain of that block in
\* the index under block.hash, the best chain only if it is better than
\* the one before; it never fails with "Parent block not found".
C32_GenesisStep ==
    forkLast.zero64 =>
        /\ forkLast.result = "Ok"
        /\ forkLast.block.hash \in DOMAIN chains
        /\ chains[forkLast.block.hash] = <<forkLast.block>>

\* C36: add_block of a block that a known chain already holds, as its tip
\* or further down, leaves the chains of the index and the best tip as they
\* were, so it adds no entry and does not make has_forks true.
C36_DuplicateIdempotent ==
    (forkLast.contained /\ AllComputed) =>
        /\ forkLast.same
        /\ (has_forks => forkLast.forks)

\* C37: best_chain_hash is None only while the index is empty and is a key
\* of the index otherwise, every key is the hash of the last block of its
\* chain, and get_best_chain is not None once a block has been accepted.
C37_IndexWellFormed ==
    /\ best_chain_hash = NoHash => chains = EmptyMap
    /\ best_chain_hash # NoHash => best_chain_hash \in DOMAIN chains
    /\ \A k \in DOMAIN chains : Len(chains[k]) > 0 /\ Last(chains[k]).hash = k
    /\ added # <<>> => get_best_chain(chains, best_chain_hash) # <<>>

\* ------------------------------------------------------------------------
\* Proof of work against the recomputed hash
\* ------------------------------------------------------------------------
\* ProofOfWork::with_difficulty(d).validate_block(block) on a block whose
\* header carries the hash `stored`, while Block::calculate_hash over its
\* header fields and transactions gives `digest`.
ValidateStored(d, stored, digest) ==
    /\ ~TargetPanics(d)
    /\ LET block == [BlockNew(ZERO64, 0, 1, 1) EXCEPT !.hash = stored]
       IN  powLast' = [op |-> "validate", d |-> d, block |-> block,
                       digest |-> digest,
                       ret |-> pow_validate_block(d, block)]
    /\ difficulty' = d
    /\ UNCHANGED <<coreVars, stateVars, moreVars>>

StoredNext ==
    /\ PowReady
    /\ \E d \in 1..MaxDifficulty, stored \in PowHashes, digest \in MineHashes :
          ValidateStored(d, stored, digest)

SpecStored == InitPow /\ [][StoredNext]_vars

\* C33: validate_block accepts a block only if the hash recomputed from its
\* header fields and transactions is below the target, and rejects a block
\* whose stored hash differs from the recomputed one.
C33_RecomputedHash ==
    (powLast.op = "validate" /\ powLast.ret) =>
        /\ validate_proof(powLast.digest, calculate_target(powLast.d))
        /\ powLast.block.hash = powLast.digest

\* ------------------------------------------------------------------------
\* The range of the difficulty
\* ------------------------------------------------------------------------
\* ProofOfWork::with_difficulty(d) for a d of 1 to 64, then calls of
\* adjust_difficulty; the calls stop once no target can be computed.
RangeStamps == {<<>>} \cup [1..2 -> {0, MaxStamp}]

RangeInit ==
    /\ difficulty \in 1..HASH_LENGTH
    /\ powLast = NoPow

AdjustInRange(stamps, t, checked) ==
    /\ ~TargetPanics(difficulty)
    /\ LET r == adjust_difficulty(difficulty, LastBlocks(stamps), t, checked)
       IN  /\ difficulty' = r.difficulty
           /\ powLast' = [op |-> "adjust", d |-> difficulty, stamps |-> stamps,
                          t |-> t, checked |-> checked, panic |-> r.panic,
                          ret |-> r.difficulty]
    /\ UNCHANGED <<coreVars, stateVars, moreVars>>

RangeNext ==
    \E stamps \in RangeStamps, t \in 0..MaxTarget, checked \in BOOLEAN :
        AdjustInRange(stamps, t, checked)

InitRange == ChainIdle /\ ForkIdle /\ PoolIdle /\ RangeInit /\ StateIdle /\ MoreIdle

SpecRange == InitRange /\ [][RangeNext]_vars

\* C38: after any number of adjust_difficulty calls on a difficulty that
\* started between 1 and 64 the difficulty is between 1 and 64, so
\* calculate_target has a string to return.
C38_DifficultyInRange ==
    /\ difficulty \in 1..HASH_LENGTH
    /\ ~TargetPanics(difficulty)

\* ------------------------------------------------------------------------
\* The pool after an add
\* ------------------------------------------------------------------------
\* Mempool::contains_transaction
contains_transaction(txs, tx) == tx_hash(tx) \in transaction_lookup(txs)

\* C34: add_transaction returns DuplicateTransaction only for a transaction
\* that is pending in the pool when the call is made (the call leaves the
\* queue as it was), so one that was removed, expired or evicted can be
\* added again.
C34_DuplicateOnlyWhilePending ==
    (lastOp.op = "add" /\ lastOp.result = "DuplicateTransaction") =>
        /\ lastOp.same
        /\ contains_transaction(transactions, lastOp.tx)

\* C35: when add_transaction returns Ok the transaction is in the pool.
C35_AcceptedIsPending ==
    (lastOp.op = "add" /\ lastOp.result = "Ok") =>
        contains_transaction(transactions, lastOp.tx)

\* ------------------------------------------------------------------------
\* The command line: canonical chain and fork choice
\* ------------------------------------------------------------------------
\* CLI::new: the fork choice is built from a clone of the chain.
CliInit ==
    /\ LedgerInit
    /\ chains = with_genesis_chain(ledger).chains
    /\ best_chain_hash = with_genesis_chain(ledger).best
    /\ tracking = FALSE
    /\ max_reorg_depth = 0
    /\ reorg_history = <<>>
    /\ added = <<>>
    /\ emitted = <<>>
    /\ forkLast = NoFork

\* MiningCommands::mine_block: Chain::add_block, then store_block on the
\* block store of the CLI (stored is FALSE when it returns an error, which
\* `?` hands to the caller), then ForkChoice::add_block.  The other mining
\* command, mine_block_from_mempool, does not call the fork choice.
MineBlockCommand(txs, nonce, timestamp, stored) ==
    /\ ledgerOwner = "cli"
    /\ Len(ledger) < MaxLedger
    /\ LET block == Block_new(Last(ledger).hash, txs, nonce, timestamp, Len(ledger))
       IN  /\ LedgerAppend(block)
           /\ IF validate_block(ledger, block) /\ stored
              THEN \E r \in fork_add_block(chains, best_chain_hash, block) :
                      /\ chains' = r.chains
                      /\ best_chain_hash' = r.best
                      /\ forkLast' = [NoFork EXCEPT !.result = r.result]
              ELSE UNCHANGED <<chains, best_chain_hash, forkLast>>
    /\ UNCHANGED <<tracking, max_reorg_depth, reorg_history, added, emitted,
                   ledgerOwner, chainVars, poolVars, powVars, stateVars, netVars, serverVars>>

CliNext ==
    \/ \E txs \in {t \in TransactionLists : Len(t) <= 1}, nonce \in Nonces,
          timestamp \in LedgerClock, stored \in BOOLEAN :
          MineBlockCommand(txs, nonce, timestamp, stored)
    \/ \E tx \in LedgerTransactions, now \in LedgerClock :
          AddTransactionToMempool(tx, now, now)
    \/ \E nonce \in Nonces, timestamp \in LedgerClock :
          MineBlockFromMempool(nonce, timestamp)

InitCli ==
    ChainIdle /\ CliInit /\ PoolIdle /\ PowIdle /\ StateIdle /\ NetIdle /\ ServerIdle

SpecCli == InitCli /\ [][CliNext]_vars

\* C40: the best chain of the fork choice has the tip hash and the length
\* of the canonical chain of the CLI, and every block of the canonical
\* chain is in a chain the fork choice knows.
C40_CanonicalAgrees ==
    LET best == get_best_chain(chains, best_chain_hash)
    IN  /\ best # <<>>
        /\ Last(best).hash = Last(ledger).hash
        /\ Len(best) = Len(ledger)
        /\ \A i \in 1..Len(ledger) : Contained(chains, ledger[i])

\* ------------------------------------------------------------------------
\* The accept loop and stop()
\* ------------------------------------------------------------------------
\* NetworkServer::start, one step per statement, on a thread of its own;
\* stop() is called from another thread at any moment.  listener.stopped
\* says that a stop() has returned, listener.passed that the loop went
\* past its test of the flag after that, listener.late that a worker was
\* spawned after that.
\* What start() and stop() leave alone.
listenRest == <<coreVars, powVars, stateVars, netVars, ledgerVars, peersLock, threads>>

\* TcpListener::bind, with `?` on its error.
Bind(ok) ==
    /\ listener.start = "new"
    /\ listener' = [listener EXCEPT !.start = IF ok THEN "bound" ELSE "failed"]
    /\ UNCHANGED <<running, listenRest>>

\* *self.running.lock().unwrap() = true;
SetRunning ==
    /\ listener.start = "bound"
    /\ running' = TRUE
    /\ listener' = [listener EXCEPT !.start = "incoming"]
    /\ UNCHANGED listenRest

\* listener.incoming() hands the next connection, or the error of accept.
Incoming(ok) ==
    /\ listener.start = "incoming"
    /\ listener' = [listener EXCEPT !.start = "test", !.stream = ok]
    /\ UNCHANGED <<running, listenRest>>

\* if !*self.running.lock().unwrap() { break; }
TestRunning ==
    /\ listener.start = "test"
    /\ listener' = [listener EXCEPT
                       !.start = IF ~running THEN "returned"
                                 ELSE IF listener.stream THEN "spawn"
                                 ELSE "incoming",
                       !.passed = listener.passed \/ (running /\ listener.stopped)]
    /\ UNCHANGED <<running, listenRest>>

\* thread::spawn of the per-peer worker.
SpawnWorker ==
    /\ listener.start = "spawn"
    /\ listener.spawned < MaxSpawned
    /\ listener' = [listener EXCEPT
                       !.start = "incoming",
                       !.spawned = listener.spawned + 1,
                       !.late = listener.late \/ listener.stopped]
    /\ UNCHANGED <<running, listenRest>>

\* NetworkServer::stop
Stop ==
    /\ running' = FALSE
    /\ listener' = [listener EXCEPT !.stopped = TRUE]
    /\ UNCHANGED listenRest

ListenNext ==
    \/ \E ok \in BOOLEAN : Bind(ok)
    \/ SetRunning
    \/ \E ok \in BOOLEAN : Incoming(ok)
    \/ TestRunning
    \/ SpawnWorker
    \/ Stop

InitListen == ChainIdle /\ ForkIdle /\ PoolIdle /\ ExtIdle

SpecListen == InitListen /\ [][ListenNext]_vars

\* C31: once a stop() has returned the accept loop spawns no worker and
\* leaves at its next test of the flag, whatever the order of the steps of
\* start() and stop().
C31_StopStops == ~listener.late /\ ~listener.passed

\* ------------------------------------------------------------------------
\* The two mutexes of the server
\* ------------------------------------------------------------------------
\* What each call does to Mutex<Chain> ("chain") and to the Mutex of the
\* peer table ("peers"), in the order of its statements; a guard taken by
\* a temporary is released at the end of the statement.
Lock(m) == <<"lock", m>>

Unlock(m) == <<"unlock", m>>

Calls == {"Handshake", "GetChainInfo", "GetBlocks", "GetPeers", "NewBlock",
          "connect_to_peer", "sync_blockchain", "broadcast_block",
          "get_network_stats"}

\* The calls with connect_to_peer keeping chain_guard until it returns.
LocksOfHoldingChain(op) ==
    CASE op = "Handshake" ->
            <<Lock("peers"), Unlock("peers"), Lock("chain"), Unlock("chain")>>
      [] op \in {"GetChainInfo", "GetBlocks", "NewBlock"} ->
            <<Lock("chain"), Unlock("chain")>>
      [] op \in {"GetPeers", "broadcast_block"} ->
            <<Lock("peers"), Unlock("peers")>>
      [] op = "connect_to_peer" ->
            <<Lock("chain"), Lock("peers"), Unlock("peers"), Unlock("chain")>>
      [] op = "sync_blockchain" ->
            <<Lock("peers"), Unlock("peers"), Lock("chain"), Unlock("chain"),
              Lock("chain"), Unlock("chain"), Lock("chain"), Unlock("chain")>>
      [] op = "get_network_stats" ->
            <<Lock("peers"), Lock("chain"), Unlock("chain"), Unlock("peers")>>

\* handle_message for each message type, connect_to_peer, sync_blockchain
\* (with request_blocks_from_peer and process_sync_blocks), broadcast_block
\* and get_network_stats.
LocksOf(op) ==
    CASE op = "Handshake" ->
            <<Lock("peers"), Unlock("peers"), Lock("chain"), Unlock("chain")>>
      [] op \in {"GetChainInfo", "GetBlocks", "NewBlock"} ->
            <<Lock("chain"), Unlock("chain")>>
      [] op \in {"GetPeers", "broadcast_block"} ->
            <<Lock("peers"), Unlock("peers")>>
      [] op = "connect_to_peer" ->
            <<Lock("chain"), Unlock("chain"), Lock("peers"), Unlock("peers")>>
      [] op = "sync_blockchain" ->
            <<Lock("peers"), Unlock("peers"), Lock("chain"), Unlock("chain"),
              Lock("chain"), Unlock("chain"), Lock("chain"), Unlock("chain")>>
      [] op = "get_network_stats" ->
            <<Lock("peers"), Lock("chain"), Unlock("chain"), Unlock("peers")>>

Holder(m) == IF m = "chain" THEN chainLock ELSE peersLock

InCall(t) == threads[t].op # "none"

\* The statement thread t is at.
Statement(t) == LocksOf(threads[t].op)[threads[t].at]

\* Thread t is at a lock() of m and m is held.
WaitsFor(t, m) ==
    InCall(t) /\ Statement(t) = Lock(m) /\ ~CanLock(Holder(m))

CanStep(t) ==
    InCall(t) /\ (Statement(t)[1] = "lock" => CanLock(Holder(Statement(t)[2])))

\* What the calls leave alone.
locksRest == <<blocks, persistent, store, pc, msg, syncLeft, faults, lastAdd,
               forkVars, poolVars, powVars, stateVars, netVars, ledgerVars,
               running, listener>>

\* A per-peer worker reads a message of the type, or a thread of the node
\* calls one of the functions.
Call(t, op) ==
    /\ ~InCall(t)
    /\ threads' = [threads EXCEPT ![t] = [op |-> op, at |-> 1]]
    /\ UNCHANGED <<chainLock, peersLock, locksRest>>

\* Thread t executes the statement it is at; after the last one the call
\* returns.
Step(t) ==
    /\ CanStep(t)
    /\ LET st == Statement(t)
           holder == IF st[1] = "lock" THEN t ELSE 0
       IN  /\ chainLock' = IF st[2] = "chain" THEN holder ELSE chainLock
           /\ peersLock' = IF st[2] = "peers" THEN holder ELSE peersLock
    /\ threads' = [threads EXCEPT ![t] =
                      IF threads[t].at = Len(LocksOf(threads[t].op))
                      THEN NoCall
                      ELSE [threads[t] EXCEPT !.at = threads[t].at + 1]]
    /\ UNCHANGED locksRest

LocksNext ==
    \/ \E t \in Threads, op \in Calls : Call(t, op)
    \/ \E t \in Threads : Step(t)

InitLocks == ChainIdle /\ ForkIdle /\ PoolIdle /\ ExtIdle

SpecLocks == InitLocks /\ [][LocksNext]_vars

\* C39: while a thread is inside one of the calls some thread inside a
\* call can execute its next statement, and no thread asks for the peer
\* table while it holds the chain, the order opposite to the one of
\* get_network_stats.
C39_DeadlockFree ==
    /\ (\E t \in Threads : InCall(t)) => (\E t \in Threads : CanStep(t))
    /\ \A t \in Threads :
          ~(chainLock = t /\ InCall(t) /\ Statement(t) = Lock("peers"))

\* get_network_stats holds the peer table and waits for the chain, which
\* another thread holds.
C39_Witness ==
    \E t \in Threads, u \in Threads :
        /\ peersLock = t /\ WaitsFor(t, "chain")
        /\ chainLock = u /\ u # t

Init == InitChain

Next == ChainNext

Spec == Init /\ [][Next]_vars

====
